---- MODULE Spec2Model ----
(***************************************************************************)
(* Flowstate backend: the rate-limited inference pipeline.                 *)
(*   - RequestQueue      (backend/src/ai/requestQueue.ts)                  *)
(*   - GroqRateLimiter   (backend/src/ai/rateLimiter.ts)                   *)
(*   - PatternDetector   (backend/src/patterns/PatternDetector.ts)         *)
(*   - WebSocketHandler  (backend/src/websocket/socketHandler.ts)          *)
(* Each component has its own variables, actions and specification; a      *)
(* specification leaves the variables of the other components unchanged.   *)
(***************************************************************************)
EXTENDS Integers, Sequences, FiniteSets, TLC

(***************************************************************************)
(* Bounds of the model and configuration values                            *)
(***************************************************************************)
\* number of enqueue calls in one behaviour
MaxReqs == 4
\* RequestQueue constructor argument maxQueueSize (50 in GroqClient)
MaxQueueSize == 3
\* RequestQueue constructor argument maxRetries
QMaxRetries == 3
\* RequestQueue constructor argument retryDelay
RetryDelay == 5000
\* drain-loop activations that can coexist in the model
MaxLoops == 2

\* GroqRateLimiter config.requestsPerMinute
RequestsPerMinute == 3
\* GroqRateLimiter config.tokensPerMinute is four times this
TokensPerQuarter == 200
\* how often the clock advances: by a quarter of a minute in the acquire
\* specification, by half the intervention interval in the throttle one
MaxTicks == 5
MaxThrottleTicks == 4
\* acquire's default token estimate, also what the queue asks for
DefaultEstimate == 200
\* the sliding window of acquire, ms
WindowMs == 60000
\* canSendIntervention's default minIntervalMs
MinIntervalMs == 600000
\* number of activity:log events in one behaviour
MaxEvents == 2
\* how often the clock advances in the orchestration specification
MaxOrchTicks == 2
\* DEFAULT_PATTERN_CONFIG
ContextSwitchWindow == 300000
ContextSwitchThreshold == 8
IdleThresholdShort == 30
IdleThresholdExtended == 300
FragmentedFocusWindow == 600000
FragmentedFocusThreshold == 10
\* detectSocialMediaSpiral: visits that make a spiral
SocialMinVisits == 3
\* analyzePatternAndIntervene: the recent activities analysed
RecentWindow == 50
\* number of calls of the inference client in one behaviour
MaxGroqCalls == 2
\* GroqConfig.maxTokens
ConfigMaxTokens == 1000
\* generateDeep: the most tokens the fallback call asks for
FallbackCap == 4096
\* the most switches and the most social media visits given to the detector
MaxSwitches == 16
MaxVisits == 10
\* how often the clock advances before the detector is called
MaxDetectTicks == 3
MaxIdleEvents == 3
MaxFocusCalls == 2
MaxCalculateCalls == 3
\* how often the clock advances between the limiter's queries
MaxQueryTicks == 3
\* the service worker calls connect() while no more than this many connect()
\* calls, reconnect timers and open sockets are under way
MaxConcurrentConnects == 1
\* how often send is called
MaxSends == 1
\* WebSocketClient: maxReconnectAttempts, reconnectDelay, maxReconnectDelay
\* and the most messages send() keeps
MaxReconnectAttempts == 10
ReconnectDelay == 1000
MaxReconnectDelay == 30000
MessageQueueLimit == 100
\* EventBatcher: how often add is called, and the largest maxBatchSize given
MaxAdds == 4
MaxBatch == 3

ReqIds == 1..MaxReqs
LoopIds == 1..MaxLoops

Min(S) == CHOOSE x \in S : \A y \in S : x <= y
Max(S) == CHOOSE x \in S : \A y \in S : x >= y

RECURSIVE Pow2(_)
Pow2(n) == IF n <= 0 THEN 1 ELSE 2 * Pow2(n - 1)

Count(s, x) == Cardinality({i \in 1..Len(s) : s[i] = x})
Range(s) == {s[i] : i \in 1..Len(s)}

(***************************************************************************)
(* State                                                                   *)
(***************************************************************************)
VARIABLES
  now,         \* Date.now(), ms
  \* RequestQueue
  queue,       \* this.queue: request ids, head first
  processing,  \* this.processing
  reqs,        \* the QueuedRequest objects: priority, retries, maxRetries, execute
  promise,     \* state of the promise enqueue returned for each request
  promiseVal,  \* the value a resolved promise holds (the id of the closure that produced it)
  nextId,      \* number of enqueue calls made so far
  timers,      \* pending retry setTimeout callbacks, per request
  loopPc,      \* position of each processQueue activation
  loopReq,     \* the local `request` of each processQueue activation
  execCount,   \* history: how often the closure of each request was invoked
  delays,      \* history: the backoff delays scheduled for each request
  enqAfterStart, \* history: an enqueue happened after a closure had been invoked
  \* GroqRateLimiter
  tokens,       \* this.tokens
  requests,     \* this.requests: timestamps of the granted acquires in the window
  lastRefill,   \* this.lastRefill
  sessionInterventions, \* this.sessionInterventions: sessionId -> last intervention time
  grantLog,     \* history: timestamps of all granted acquires
  lastAcquire,  \* history: the last acquire call, what it saw and what it left
  runBase,      \* history: tokens available when the calls at this instant began
  runSum,       \* history: tokens granted by the calls at this instant
  lastRecord,   \* history: per session, the last recordIntervention not yet cleared
  lastAnswer,   \* history: the last canSendIntervention call and its answer
  \* ActivityService and WebSocketHandler
  activities,   \* the stored activities of each session, in timestamp order
  aiConfigured, \* this.aiService is not null
  frontendConnections, \* sessions a connected frontend is subscribed to
  endedSessions, \* sessions whose session:end was handled (extension connection removed)
  events,       \* the activity:log events handled: session, position, requests made
  nextEvent,    \* number of activity:log events received
  delivered,    \* history: the intervention:send messages emitted
  errorEvents,  \* history: the activity:log events answered with an error event
  \* InsightsService
  lastInsights, \* history: the last generateSessionInsights call and what it gave
  \* PatternDetector called on its own
  detectInput,  \* the activities given to detectPatterns and the detector's threshold
  detectOutput, \* the patterns detectPatterns returned, and when
  \* FocusScoreCalculator called on its own
  focusInput,   \* the activities and the session duration given to calculate
  focusOutput,  \* history: the calls of calculate, their input and minimalIdle
  defaultConfig, \* the DEFAULT_FOCUS_SCORE_CONFIG object every calculator holds
  calculateCalls, \* history: the calls of calculate, what they read and returned
  trendCall,    \* the arguments of a calculateTrend call and what it returned
  \* GroqRateLimiter and its queries
  ref,          \* a second limiter that is given the same acquire calls and no queries
  lastQuery,    \* history: the last query and its answer
  lastBoth,     \* history: the last acquire, what the two limiters answered and were left with
  \* WebSocketClient of the extension
  socket,       \* this.socket: a socket of `sockets`, or NoSocket for null
  sockets,      \* the Socket objects io() made: connecting, connected or closed
  reconnectAttempts, \* this.reconnectAttempts
  isIntentionallyDisconnected, \* this.isIntentionallyDisconnected
  messageQueue, \* this.messageQueue
  connectCalls, \* connect() calls that await chrome.storage.local.get
  reconnectTimers, \* pending setTimeout callbacks of scheduleReconnect
  sendCount,    \* number of send calls made so far
  sendsLeft,    \* number of send calls still to come
  emitted,      \* history: the socket.emit calls, in order
  scheduled,    \* history: the reconnects scheduled since the last 'connect' event
  \* EventBatcher of the extension
  batcherConfig, \* maxBatchSize and useAlarms
  batch,        \* this.batch
  flushTimer,   \* this.flushTimer: a timer, or NoTimer for null
  timeouts,     \* pending setTimeout callbacks
  alarmSet,     \* the chrome alarm of the batcher exists
  alarmGets,    \* chrome.alarms.get calls whose callback has not run
  flushed,      \* history: the arguments of the flushCallback calls, in order
  added,        \* number of add calls made so far
  discarded,    \* history: the events clear() removed
  \* GroqClient
  closures      \* what each call of the client asks for and what the API does for it

qvars == <<queue, processing, reqs, promise, promiseVal, nextId, timers, loopPc,
           loopReq, execCount, delays, enqAfterStart>>
lvars == <<tokens, requests, lastRefill, sessionInterventions, grantLog,
           lastAcquire, runBase, runSum, lastRecord, lastAnswer>>
ovars == <<activities, aiConfigured, frontendConnections, endedSessions, events, nextEvent,
          delivered, errorEvents>>
gvars == <<closures>>
ivars == <<lastInsights>>
dvars == <<detectInput, detectOutput>>
fvars == <<focusInput, focusOutput>>
cvars == <<defaultConfig, calculateCalls, trendCall>>
rvars == <<ref, lastQuery, lastBoth>>
wvars == <<socket, sockets, reconnectAttempts, isIntentionallyDisconnected, messageQueue,
           connectCalls, reconnectTimers, sendCount, sendsLeft, emitted, scheduled>>
bvars == <<batcherConfig, batch, flushTimer, timeouts, alarmSet, alarmGets, flushed, added,
           discarded>>
xvars == <<rvars, wvars, bvars>>
vars == <<now, qvars, lvars, ovars, gvars, ivars, dvars, fvars, cvars, xvars>>

\* what the actions of one component leave alone
notQueue == <<now, lvars, ovars, gvars, ivars, dvars, fvars, cvars, xvars>>
notLimiter == <<qvars, ovars, gvars, ivars, dvars, fvars, cvars, xvars>>
notOrch == <<qvars, lvars, gvars, ivars, dvars, fvars, cvars, xvars>>
notInsights == <<now, qvars, lvars, ovars, gvars, dvars, fvars, cvars, xvars>>
notDetect == <<qvars, lvars, ovars, gvars, ivars, fvars, cvars, xvars>>
notFocus == <<now, qvars, lvars, ovars, gvars, ivars, dvars, cvars, xvars>>
notScore == <<now, qvars, lvars, ovars, gvars, ivars, dvars, focusInput, focusOutput, xvars>>

(***************************************************************************)
(* RequestQueue                                                            *)
(***************************************************************************)

\* What the closure passed to enqueue does each time it is invoked:
\*   ok        returns its value
\*   throttle  always throws an error whose message contains '429' / 'rate_limit'
\*   error     always throws some other error
Kinds == {"ok", "throttle", "error"}

\* options passed to enqueue; maxRetries 0 stands for "not given"
EnqueueInputs ==
  {[priority |-> 1, maxRetries |-> 2, kind |-> "throttle"],
   [priority |-> 3, maxRetries |-> 0, kind |-> "ok"],
   [priority |-> 2, maxRetries |-> 0, kind |-> "error"]}

NoReq == [priority |-> 0, retries |-> 0, maxRetries |-> 0, kind |-> "none"]

QueueInit ==
  /\ queue = <<>>
  /\ processing = FALSE
  /\ reqs = [r \in ReqIds |-> NoReq]
  /\ promise = [r \in ReqIds |-> "none"]
  /\ promiseVal = [r \in ReqIds |-> 0]
  /\ nextId = 0
  /\ timers = [r \in ReqIds |-> 0]
  /\ loopPc = [l \in LoopIds |-> "none"]
  /\ loopReq = [l \in LoopIds |-> 0]
  /\ execCount = [r \in ReqIds |-> 0]
  /\ delays = [r \in ReqIds |-> <<>>]
  /\ enqAfterStart = FALSE

\* `a || b` on numbers: b when a is 0 (or absent)
OrDefault(a, b) == IF a = 0 THEN b ELSE a

\* enqueue, line 48: this.queue.length >= this.maxQueueSize
QueueIsFullOffByOne(q) == Len(q) > MaxQueueSize
QueueIsFull(q) == Len(q) >= MaxQueueSize

\* enqueue, line 65: this.queue.findIndex((r) => r.priority < request.priority)
\* (0 stands for -1, positions are 1-based)
FindInsertIndexBeforeEqual(q, rq, p) ==
  LET S == {i \in 1..Len(q) : rq[q[i]].priority <= p}
  IN IF S = {} THEN 0 ELSE Min(S)
FindInsertIndex(q, rq, p) ==
  LET S == {i \in 1..Len(q) : rq[q[i]].priority < p}
  IN IF S = {} THEN 0 ELSE Min(S)

\* enqueue, lines 66-70: push, or splice(insertIndex, 0, request)
InsertRequest(q, rq, id, p) ==
  LET i == FindInsertIndex(q, rq, p)
  IN IF i = 0 THEN Append(q, id)
     ELSE SubSeq(q, 1, i - 1) \o <<id>> \o SubSeq(q, i, Len(q))

\* enqueue line 73 and processQueue lines 83-85: a drain loop is started only
\* when none is marked as running
MayStartDrainAlways == TRUE
MayStartDrain == ~processing

FreeLoopsNone == {}
FreeLoops == {l \in LoopIds : loopPc[l] = "none"}

\* The top of the while loop of processQueue (lines 89-93) for activation l with
\* the queue being q: either the head is read into `request` and acquire is
\* called (the activation then waits for the awaited result), or the loop is
\* left and processing is reset (line 131).
WhileTop(l, q) ==
  IF Len(q) > 0
    THEN /\ loopPc' = [loopPc EXCEPT ![l] = "acquire"]
         /\ loopReq' = [loopReq EXCEPT ![l] = q[1]]
         /\ processing' = TRUE
    ELSE /\ loopPc' = [loopPc EXCEPT ![l] = "none"]
         /\ loopReq' = [loopReq EXCEPT ![l] = 0]
         /\ processing' = FALSE

\* A call of processQueue (lines 82-93) with the queue being q.
ProcessQueue(q) ==
  IF MayStartDrain /\ FreeLoops # {}
    THEN WhileTop(Min(FreeLoops), q)
    ELSE UNCHANGED <<processing, loopPc, loopReq>>

\* enqueue (lines 38-77)
Enqueue(opt) ==
  /\ UNCHANGED notQueue
  /\ nextId < MaxReqs
  /\ LET id == nextId + 1 IN
     /\ nextId' = id
     /\ IF QueueIsFull(queue)
          THEN /\ promise' = [promise EXCEPT ![id] = "rejectedFull"]
               /\ UNCHANGED <<queue, processing, reqs, loopPc, loopReq, enqAfterStart>>
          ELSE /\ reqs' = [reqs EXCEPT ![id] =
                     [priority |-> OrDefault(opt.priority, 0),
                      retries |-> 0,
                      maxRetries |-> OrDefault(opt.maxRetries, QMaxRetries),
                      kind |-> opt.kind]]
               /\ queue' = InsertRequest(queue, reqs', id, reqs'[id].priority)
               /\ promise' = [promise EXCEPT ![id] = "pending"]
               /\ enqAfterStart' = (enqAfterStart \/ (\E r \in ReqIds : execCount[r] > 0))
               /\ ProcessQueue(queue')
  /\ UNCHANGED <<promiseVal, timers, execCount, delays>>

\* processQueue lines 93-99: the awaited acquire answered false; the activation
\* sleeps for 2 s
AcquireDenied(l) ==
  /\ UNCHANGED notQueue
  /\ loopPc[l] = "acquire"
  /\ loopPc' = [loopPc EXCEPT ![l] = "sleep"]
  /\ UNCHANGED <<queue, processing, reqs, promise, promiseVal, nextId, timers,
                 loopReq, execCount, delays, enqAfterStart>>

\* processQueue lines 98-99: the 2 s timer fired; `continue` goes to the loop top
SleepDone(l) ==
  /\ UNCHANGED notQueue
  /\ loopPc[l] = "sleep"
  /\ \A k \in LoopIds : loopPc[k] # "acquire"
  /\ WhileTop(l, queue)
  /\ UNCHANGED <<queue, reqs, promise, promiseVal, nextId, timers, execCount,
                 delays, enqAfterStart>>

\* processQueue lines 93-107: the awaited acquire answered true; the head of the
\* queue is removed and the closure of `request` is invoked
AcquireGranted(l) ==
  /\ UNCHANGED notQueue
  /\ loopPc[l] = "acquire"
  /\ queue' = Tail(queue)
  /\ execCount' = [execCount EXCEPT ![loopReq[l]] = @ + 1]
  /\ loopPc' = [loopPc EXCEPT ![l] = "exec"]
  /\ UNCHANGED <<processing, reqs, promise, promiseVal, nextId, timers, loopReq,
                 delays, enqAfterStart>>

\* the outcome of the n-th invocation of a closure of kind k
Outcome(k, n) ==
  CASE k = "ok" -> "value"
    [] k = "throttle" -> "rateLimit"
    [] OTHER -> "otherError"

\* processQueue line 112: errorMessage.includes('429') || includes('rate_limit')
IsRateLimit(outcome) == outcome = "rateLimit"

\* resolve / reject of a promise: only a pending promise changes
Settle(pr, r, to) == IF pr[r] = "pending" THEN [pr EXCEPT ![r] = to] ELSE pr

\* processQueue lines 107-129: the closure of `request` settled, the
\* activation being at position at
ExecSettled(l, at) ==
  /\ UNCHANGED notQueue
  /\ loopPc[l] = at
  /\ \A k \in LoopIds : loopPc[k] # "acquire"
  /\ LET r == loopReq[l]
         out == Outcome(reqs[r].kind, execCount[r])
     IN
     /\ IF out = "value"
          THEN /\ promise' = Settle(promise, r, "resolved")
               /\ promiseVal' = IF promise[r] = "pending"
                                  THEN [promiseVal EXCEPT ![r] = r] ELSE promiseVal
               /\ UNCHANGED <<reqs, timers, delays>>
          ELSE IF IsRateLimit(out) /\ reqs[r].retries < reqs[r].maxRetries
            THEN /\ reqs' = [reqs EXCEPT ![r].retries = @ + 1]
                 /\ delays' = [delays EXCEPT ![r] =
                       Append(@, RetryDelay * Pow2(reqs'[r].retries - 1))]
                 /\ timers' = [timers EXCEPT ![r] = @ + 1]
                 /\ UNCHANGED <<promise, promiseVal>>
            ELSE /\ promise' = Settle(promise, r,
                       IF IsRateLimit(out) THEN "rejectedRateLimit" ELSE "rejectedError")
                 /\ UNCHANGED <<promiseVal, reqs, timers, delays>>
     /\ WhileTop(l, queue)
  /\ UNCHANGED <<queue, nextId, execCount, enqAfterStart>>

\* the closure settled right after its work
ExecDone(l) == ExecSettled(l, "exec")

\* processQueue lines 120-123: a retry timer fired
RetryTimerFire(r) ==
  /\ UNCHANGED notQueue
  /\ timers[r] > 0
  /\ \A k \in LoopIds : loopPc[k] # "acquire"
  /\ timers' = [timers EXCEPT ![r] = @ - 1]
  /\ queue' = <<r>> \o queue
  /\ ProcessQueue(queue')
  /\ UNCHANGED <<reqs, promise, promiseVal, nextId, execCount, delays,
                 enqAfterStart>>

QueueNext ==
  \/ \E opt \in EnqueueInputs : Enqueue(opt)
  \/ \E l \in LoopIds : AcquireDenied(l)
  \/ \E l \in LoopIds : SleepDone(l)
  \/ \E l \in LoopIds : AcquireGranted(l)
  \/ \E l \in LoopIds : ExecDone(l)
  \/ \E r \in ReqIds : RetryTimerFire(r)

\* the same queue in front of a rate limiter that grants every acquire
QueueNextGranted ==
  \/ \E opt \in EnqueueInputs : Enqueue(opt)
  \/ \E l \in LoopIds : AcquireGranted(l)
  \/ \E l \in LoopIds : ExecDone(l)
  \/ \E r \in ReqIds : RetryTimerFire(r)

(***************************************************************************)
(* GroqRateLimiter                                                         *)
(***************************************************************************)

Sessions == {"s1", "s2"}
\* Map.get of a missing key (undefined)
Absent == -1

TokensPerMinute == 4 * TokensPerQuarter
QuarterMs == WindowMs \div 4
\* the clock reads a positive number of ms since the epoch
StartTime == QuarterMs
Estimates == {DefaultEstimate, 2 * DefaultEstimate}
MinIntervals == {MinIntervalMs, MinIntervalMs \div 2}

NoAcquire == [at |-> Absent, k |-> 0, granted |-> FALSE, avail |-> 0, recent |-> 0,
              repeat |-> FALSE, tokBefore |-> 0, tokAfter |-> 0,
              reqBefore |-> <<>>, reqAfter |-> <<>>]
NoAnswer == [sid |-> "none", at |-> Absent, min |-> 0, answer |-> FALSE, since |-> Absent]

\* constructor, lines 19-33
LimiterInit ==
  /\ tokens = TokensPerMinute
  /\ requests = <<>>
  /\ lastRefill = StartTime
  /\ sessionInterventions = [s \in Sessions |-> Absent]
  /\ grantLog = <<>>
  /\ lastAcquire = NoAcquire
  /\ runBase = TokensPerMinute
  /\ runSum = 0
  /\ lastRecord = [s \in Sessions |-> Absent]
  /\ lastAnswer = NoAnswer

\* refillTokens, lines 96-104: (elapsed / 60000) * tokensPerMinute, capped
TokensToAdd(lr, t) == ((t - lr) * TokensPerMinute) \div 60000
RefillTokensUncapped(tk, lr, t) ==
  IF TokensToAdd(lr, t) > 0
    THEN [tokens |-> tk + TokensToAdd(lr, t), lastRefill |-> t]
    ELSE [tokens |-> tk, lastRefill |-> lr]
RefillTokens(tk, lr, t) ==
  IF TokensToAdd(lr, t) > 0
    THEN [tokens |-> IF tk + TokensToAdd(lr, t) < TokensPerMinute
                       THEN tk + TokensToAdd(lr, t) ELSE TokensPerMinute,
          lastRefill |-> t]
    ELSE [tokens |-> tk, lastRefill |-> lr]

\* cleanOldRequests, lines 109-112: keep time > now - 60000
InWindowInclusive(time, t) == time >= t - WindowMs
InWindow(time, t) == time > t - WindowMs
CleanOldRequests(rs, t) == SelectSeq(rs, LAMBDA time : InWindow(time, t))

\* acquire, lines 45-52: the window is full and its oldest entry is still inside
WindowBlocks(rs, t) ==
  /\ Len(rs) >= RequestsPerMinute
  /\ rs[1] + WindowMs - t > 0

\* acquire, line 55: this.tokens < estimatedTokens is false
HasTokensAlways(tk, k) == TRUE
HasTokens(tk, k) == ~(tk < k)

\* acquire, lines 39-66, as a function of the state it reads
AcquireResult(tk, lr, rs, t, k) ==
  LET rf == RefillTokens(tk, lr, t)
      cl == CleanOldRequests(rs, t)
      ok == ~WindowBlocks(cl, t) /\ HasTokens(rf.tokens, k)
  IN [granted |-> ok,
      tokens |-> IF ok THEN rf.tokens - k ELSE rf.tokens,
      lastRefill |-> rf.lastRefill,
      requests |-> IF ok THEN Append(cl, t) ELSE cl,
      avail |-> rf.tokens]

\* the granted acquires of the history that lie in the 60 s ending at t
GrantsInTrailingWindow(t) ==
  Cardinality({i \in 1..Len(grantLog) : t - grantLog[i] < WindowMs /\ grantLog[i] <= t})

\* a call of acquire(k)
Acquire(k) ==
  /\ UNCHANGED notLimiter
  /\ LET res == AcquireResult(tokens, lastRefill, requests, now, k)
         repeat == lastAcquire.at = now
     IN
     /\ tokens' = res.tokens
     /\ lastRefill' = res.lastRefill
     /\ requests' = res.requests
     /\ grantLog' = IF res.granted THEN Append(grantLog, now) ELSE grantLog
     /\ lastAcquire' = [at |-> now, k |-> k, granted |-> res.granted, avail |-> res.avail,
                        recent |-> GrantsInTrailingWindow(now), repeat |-> repeat,
                        tokBefore |-> tokens, tokAfter |-> res.tokens,
                        reqBefore |-> requests, reqAfter |-> res.requests]
     /\ runBase' = IF repeat THEN runBase ELSE res.avail
     /\ runSum' = (IF repeat THEN runSum ELSE 0) + (IF res.granted THEN k ELSE 0)
  /\ UNCHANGED <<now, sessionInterventions, lastRecord, lastAnswer>>

\* time passes
Tick ==
  /\ UNCHANGED notLimiter
  /\ now + QuarterMs <= StartTime + MaxTicks * QuarterMs
  /\ now' = now + QuarterMs
  /\ UNCHANGED <<tokens, requests, lastRefill, sessionInterventions, grantLog,
                 lastAcquire, runBase, runSum, lastRecord, lastAnswer>>

LimiterNext ==
  \/ \E k \in Estimates : Acquire(k)
  \/ Tick

\* canSendIntervention line 73: !lastIntervention
IsFalsy(v) == v = Absent \/ v = 0

\* canSendIntervention line 78: timeSinceLastIntervention < minIntervalMs
TooSoonInclusive(elapsed, m) == elapsed <= m
TooSoon(elapsed, m) == elapsed < m

\* canSendIntervention, lines 71-84
CanSendIntervention(sid, m) ==
  IF IsFalsy(sessionInterventions[sid]) THEN TRUE
  ELSE ~TooSoon(now - sessionInterventions[sid], m)

\* a call of canSendIntervention(sid, m)
CanSendCall(sid, m) ==
  /\ UNCHANGED notLimiter
  /\ lastAnswer' = [sid |-> sid, at |-> now, min |-> m,
                    answer |-> CanSendIntervention(sid, m), since |-> lastRecord[sid]]
  /\ UNCHANGED <<now, tokens, requests, lastRefill, sessionInterventions, grantLog,
                 lastAcquire, runBase, runSum, lastRecord>>

\* recordIntervention, lines 89-91
RecordIntervention(sid) ==
  /\ UNCHANGED notLimiter
  /\ sessionInterventions' = [sessionInterventions EXCEPT ![sid] = now]
  /\ lastRecord' = [lastRecord EXCEPT ![sid] = now]
  /\ UNCHANGED <<now, tokens, requests, lastRefill, grantLog, lastAcquire, runBase,
                 runSum, lastAnswer>>

\* clearSession, lines 139-141
ClearSession(sid) ==
  /\ UNCHANGED notLimiter
  /\ sessionInterventions[sid] # Absent
  /\ sessionInterventions' = [sessionInterventions EXCEPT ![sid] = Absent]
  /\ lastRecord' = [lastRecord EXCEPT ![sid] = Absent]
  /\ UNCHANGED <<now, tokens, requests, lastRefill, grantLog, lastAcquire, runBase,
                 runSum, lastAnswer>>

\* time passes, in steps of half the default intervention interval
ThrottleTick ==
  /\ UNCHANGED notLimiter
  /\ now + MinIntervalMs \div 2 <= StartTime + MaxThrottleTicks * (MinIntervalMs \div 2)
  /\ now' = now + MinIntervalMs \div 2
  /\ UNCHANGED <<tokens, requests, lastRefill, sessionInterventions, grantLog,
                 lastAcquire, runBase, runSum, lastRecord, lastAnswer>>

ThrottleNext ==
  \/ \E sid \in Sessions, m \in MinIntervals : CanSendCall(sid, m)
  \/ \E sid \in Sessions : RecordIntervention(sid)
  \/ \E sid \in Sessions : ClearSession(sid)
  \/ ThrottleTick

(***************************************************************************)
(* The arithmetic of JS numbers (IEEE 754 doubles), as far as the rate     *)
(* limiter uses it.  A natural number beyond 32 bits is a sequence of      *)
(* digits, least significant first; a double that is not negative is a     *)
(* 53-bit mantissa m and an exponent e, standing for m * 2^e.              *)
(***************************************************************************)
RECURSIVE BitsOf(_)
BitsOf(n) == IF n = 0 THEN 0 ELSE 1 + BitsOf(n \div 2)

\* the digits are below Base; the product of a digit and a 16-bit number fits 32 bits
Base == Pow2(15)
DigitBits == BitsOf(Base) - 1
\* the significand of a double
MantissaBits == 53

RECURSIVE BigOf(_)
BigOf(n) == IF n = 0 THEN <<>> ELSE <<n % Base>> \o BigOf(n \div Base)

RECURSIVE BigToInt(_)
BigToInt(a) == IF a = <<>> THEN 0 ELSE a[1] + Base * BigToInt(Tail(a))

RECURSIVE BigTrim(_)
BigTrim(a) ==
  IF a # <<>> /\ a[Len(a)] = 0 THEN BigTrim(SubSeq(a, 1, Len(a) - 1)) ELSE a

Digit(a, i) == IF i <= Len(a) THEN a[i] ELSE 0
Rest(a) == IF a = <<>> THEN <<>> ELSE Tail(a)

RECURSIVE BigAddCarry(_, _, _)
BigAddCarry(a, b, c) ==
  IF a = <<>> /\ b = <<>>
    THEN (IF c = 0 THEN <<>> ELSE <<c>>)
    ELSE LET s == Digit(a, 1) + Digit(b, 1) + c
         IN <<s % Base>> \o BigAddCarry(Rest(a), Rest(b), s \div Base)
BigAdd(a, b) == BigAddCarry(a, b, 0)

\* a - b for a >= b
RECURSIVE BigSubBorrow(_, _, _)
BigSubBorrow(a, b, c) ==
  IF a = <<>> THEN <<>>
  ELSE LET s == a[1] - Digit(b, 1) - c
       IN <<(s + Base) % Base>> \o BigSubBorrow(Tail(a), Rest(b), IF s < 0 THEN 1 ELSE 0)
BigSub(a, b) == BigTrim(BigSubBorrow(a, b, 0))

\* a * c for 0 < c < 2^16
RECURSIVE BigMulCarry(_, _, _)
BigMulCarry(a, c, carry) ==
  IF a = <<>> THEN BigOf(carry)
  ELSE LET p == a[1] * c + carry
       IN <<p % Base>> \o BigMulCarry(Tail(a), c, p \div Base)
BigMul(a, c) == BigMulCarry(a, c, 0)

\* quotient and remainder of a by c, 0 < c < 2^16
RECURSIVE BigDivRem(_, _)
BigDivRem(a, c) ==
  IF a = <<>> THEN [q |-> <<>>, r |-> 0]
  ELSE LET hi == BigDivRem(Tail(a), c)
           cur == hi.r * Base + a[1]
       IN [q |-> <<cur \div c>> \o hi.q, r |-> cur % c]

\* -1, 0, 1 as a < b, a = b, a > b
RECURSIVE BigCmp(_, _)
BigCmp(a, b) ==
  IF Len(a) # Len(b) THEN (IF Len(a) < Len(b) THEN -1 ELSE 1)
  ELSE IF a = <<>> THEN 0
  ELSE IF a[Len(a)] # b[Len(b)] THEN (IF a[Len(a)] < b[Len(b)] THEN -1 ELSE 1)
  ELSE BigCmp(SubSeq(a, 1, Len(a) - 1), SubSeq(b, 1, Len(b) - 1))

BigBits(a) == IF a = <<>> THEN 0 ELSE DigitBits * (Len(a) - 1) + BitsOf(a[Len(a)])

\* a * 2^k and floor(a / 2^k)
BigShl(a, k) ==
  IF a = <<>> THEN <<>>
  ELSE [i \in 1..(k \div DigitBits) |-> 0] \o BigMul(a, Pow2(k % DigitBits))
BigShr(a, k) ==
  IF k \div DigitBits >= Len(a) THEN <<>>
  ELSE BigTrim(BigDivRem(SubSeq(a, k \div DigitBits + 1, Len(a)), Pow2(k % DigitBits)).q)
BigIsOdd(a) == a # <<>> /\ a[1] % 2 = 1

FZero == [m |-> <<>>, e |-> 0]

\* the double nearest to (q + f) * 2^e, where 0 <= f < 1 and sticky says f > 0;
\* a tie goes to the even mantissa.  With sticky, q has more than 53 bits.
FRound(q, sticky, e) ==
  IF q = <<>> THEN FZero
  ELSE IF BigBits(q) <= MantissaBits
    THEN [m |-> BigShl(q, MantissaBits - BigBits(q)), e |-> e - (MantissaBits - BigBits(q))]
  ELSE LET k == BigBits(q) - MantissaBits
           hi == BigShr(q, k)
           low == BigSub(q, BigShl(hi, k))
           c == BigCmp(low, BigShl(<<1>>, k - 1))
           up == c > 0 \/ (c = 0 /\ (sticky \/ BigIsOdd(hi)))
           m == IF up THEN BigAdd(hi, <<1>>) ELSE hi
       IN IF BigBits(m) > MantissaBits
            THEN [m |-> BigShr(m, 1), e |-> e + k + 1]
            ELSE [m |-> m, e |-> e + k]

\* an integer as a double (exact below 2^53)
FOfInt(n) == FRound(BigOf(n), FALSE, 0)

\* n / d of two integers, 0 <= n, 0 < d < 2^16
FDivInts(n, d) ==
  IF n = 0 THEN FZero
  ELSE LET s == MantissaBits + 2 + BitsOf(d) - BitsOf(n)
           dv == BigDivRem(BigShl(BigOf(n), s), d)
       IN FRound(BigTrim(dv.q), dv.r # 0, -s)

\* f * c for an integer 0 < c < 2^16
FMulInt(f, c) == FRound(BigMul(f.m, c), FALSE, f.e)

\* -1, 0, 1 as f < g, f = g, f > g
FCmp(f, g) ==
  IF f.m = <<>> THEN (IF g.m = <<>> THEN 0 ELSE -1)
  ELSE IF g.m = <<>> THEN 1
  ELSE LET e0 == IF f.e < g.e THEN f.e ELSE g.e
       IN BigCmp(BigShl(f.m, f.e - e0), BigShl(g.m, g.e - e0))

FAdd(f, g) ==
  IF f.m = <<>> THEN g
  ELSE IF g.m = <<>> THEN f
  ELSE LET e0 == IF f.e < g.e THEN f.e ELSE g.e
       IN FRound(BigAdd(BigShl(f.m, f.e - e0), BigShl(g.m, g.e - e0)), FALSE, e0)

\* f - g for f >= g
FSub(f, g) ==
  IF g.m = <<>> THEN f
  ELSE LET e0 == IF f.e < g.e THEN f.e ELSE g.e
       IN FRound(BigSub(BigShl(f.m, f.e - e0), BigShl(g.m, g.e - e0)), FALSE, e0)

FMin(f, g) == IF FCmp(g, f) < 0 THEN g ELSE f

\* Math.floor of a double below 2^31
FFloor(f) ==
  IF f.m = <<>> THEN 0
  ELSE IF f.e >= 0 THEN BigToInt(BigShl(f.m, f.e))
  ELSE BigToInt(BigShr(f.m, -f.e))

(***************************************************************************)
(* GroqRateLimiter: acquire next to the queries, on a clock of milliseconds, *)
(* the token count being a JS number.  (On the quarter-minute clock used   *)
(* above every refill is a whole number, so integers stand for it there.)  *)
(***************************************************************************)
\* the session the throttle is asked about
QuerySessions == {"s1"}
\* the clock advances by a third of a quarter minute
SubTickMs == QuarterMs \div 3

\* refillTokens line 98: (elapsed / 60000) * this.config.tokensPerMinute
TokensToAddNumber(lr, t) == FMulInt(FDivInts(t - lr, 60000), TokensPerMinute)

\* refillTokens, lines 96-104
RefillTokensNumber(tk, lr, t) ==
  LET tokensToAdd == TokensToAddNumber(lr, t)
  IN IF FCmp(tokensToAdd, FZero) > 0
       THEN [tokens |-> FMin(FOfInt(TokensPerMinute), FAdd(tk, tokensToAdd)),
             lastRefill |-> t]
       ELSE [tokens |-> tk, lastRefill |-> lr]

\* acquire, lines 39-66, as a function of the limiter it is called on
AcquireNumber(lim, t, k) ==
  LET rf == RefillTokensNumber(lim.tokens, lim.lastRefill, t)
      cl == CleanOldRequests(lim.requests, t)
      ok == ~WindowBlocks(cl, t) /\ ~(FCmp(rf.tokens, FOfInt(k)) < 0)
  IN [granted |-> ok,
      tokens |-> IF ok THEN FSub(rf.tokens, FOfInt(k)) ELSE rf.tokens,
      lastRefill |-> rf.lastRefill,
      requests |-> IF ok THEN Append(cl, t) ELSE cl]

\* getTimeUntilNextRequest, lines 126-134
TimeUntilNextRequest(rs, t) ==
  IF Len(rs) < RequestsPerMinute THEN 0
  ELSE IF rs[1] + 60000 - t > 0 THEN rs[1] + 60000 - t ELSE 0

NoQuery == [op |-> "none", answer |-> 0]
NoBoth == [at |-> Absent, k |-> 0, granted |-> FALSE, refGranted |-> FALSE,
           tokens |-> FZero, refTokens |-> FZero]

QueriesIdle ==
  /\ ref = [tokens |-> FZero, lastRefill |-> StartTime, requests |-> <<>>]
  /\ lastQuery = NoQuery
  /\ lastBoth = NoBoth

\* constructor, lines 19-33, of the limiter and of its twin
QueriesInit ==
  /\ tokens = FOfInt(TokensPerMinute)
  /\ requests = <<>>
  /\ lastRefill = StartTime
  /\ sessionInterventions = [s \in Sessions |-> Absent]
  /\ grantLog = <<>>
  /\ lastAcquire = NoAcquire
  /\ runBase = TokensPerMinute
  /\ runSum = 0
  /\ lastRecord = [s \in Sessions |-> Absent]
  /\ lastAnswer = NoAnswer
  /\ ref = [tokens |-> FOfInt(TokensPerMinute), lastRefill |-> StartTime, requests |-> <<>>]
  /\ lastQuery = NoQuery
  /\ lastBoth = NoBoth

notQueries == <<qvars, ovars, gvars, ivars, dvars, fvars, cvars, wvars, bvars>>

\* acquire(k), called on the limiter and on its twin
AcquireCall(k) ==
  /\ UNCHANGED notQueries
  /\ \E res \in {AcquireNumber([tokens |-> tokens, lastRefill |-> lastRefill,
                                  requests |-> requests], now, k)},
        twin \in {AcquireNumber(ref, now, k)} :
     /\ tokens' = res.tokens
     /\ lastRefill' = res.lastRefill
     /\ requests' = res.requests
     /\ ref' = [tokens |-> twin.tokens, lastRefill |-> twin.lastRefill,
                requests |-> twin.requests]
     /\ lastBoth' = [at |-> now, k |-> k, granted |-> res.granted,
                     refGranted |-> twin.granted, tokens |-> res.tokens,
                     refTokens |-> twin.tokens]
  /\ UNCHANGED <<now, sessionInterventions, grantLog, lastAcquire, runBase, runSum,
                 lastRecord, lastAnswer, lastQuery>>

\* getAvailableTokens, lines 117-121
GetAvailableTokens ==
  /\ UNCHANGED notQueries
  /\ \E rf \in {RefillTokensNumber(tokens, lastRefill, now)} :
       /\ tokens' = rf.tokens
       /\ lastRefill' = rf.lastRefill
       /\ lastQuery' = [op |-> "getAvailableTokens", answer |-> FFloor(rf.tokens)]
  /\ UNCHANGED <<now, requests, sessionInterventions, grantLog, lastAcquire, runBase,
                 runSum, lastRecord, lastAnswer, ref, lastBoth>>

\* getTimeUntilNextRequest, lines 126-134
GetTimeUntilNextRequest ==
  /\ UNCHANGED notQueries
  /\ lastQuery' = [op |-> "getTimeUntilNextRequest",
                   answer |-> TimeUntilNextRequest(requests, now)]
  /\ UNCHANGED <<now, tokens, requests, lastRefill, sessionInterventions, grantLog,
                 lastAcquire, runBase, runSum, lastRecord, lastAnswer, ref, lastBoth>>

\* canSendIntervention(sid), lines 71-84
CanSendQuery(sid) ==
  /\ UNCHANGED notQueries
  /\ lastQuery' = [op |-> "canSendIntervention",
                   answer |-> IF CanSendIntervention(sid, MinIntervalMs) THEN 1 ELSE 0]
  /\ UNCHANGED <<now, tokens, requests, lastRefill, sessionInterventions, grantLog,
                 lastAcquire, runBase, runSum, lastRecord, lastAnswer, ref, lastBoth>>

\* time passes
QueryTick ==
  /\ UNCHANGED notQueries
  /\ now + SubTickMs <= StartTime + MaxQueryTicks * SubTickMs
  /\ now' = now + SubTickMs
  /\ UNCHANGED <<lvars, rvars>>

QueriesNext ==
  \/ \E k \in Estimates : AcquireCall(k)
  \/ GetAvailableTokens
  \/ GetTimeUntilNextRequest
  \/ \E sid \in QuerySessions : CanSendQuery(sid)
  \/ \E sid \in QuerySessions : RecordIntervention(sid)
  \/ QueryTick

\* the components the specifications below leave idle

(***************************************************************************)
(* PatternDetector                                                         *)
(***************************************************************************)
\* an Activity as the detectors read it; NoUrl is a null url, idleDuration 0
\* stands for null as well (both are falsy)
NoUrl == "none"
Act(type, t, url, idle) ==
  [eventType |-> type, timestamp |-> t, url |-> url, idleDuration |-> idle]

\* the urls of the model, as the strings String.includes sees
UrlText(u) ==
  CASE u = "twitter" -> <<"h", "t", "t", "p", "s", ":", "/", "/", "t", "w", "i", "t", "t", "e", "r", ".", "c", "o", "m", "/", "h", "o", "m", "e">>
    [] u = "github" -> <<"h", "t", "t", "p", "s", ":", "/", "/", "g", "i", "t", "h", "u", "b", ".", "c", "o", "m", "/", "p", "u", "l", "l", "s">>
    [] u = "reddit" -> <<"h", "t", "t", "p", "s", ":", "/", "/", "w", "w", "w", ".", "r", "e", "d", "d", "i", "t", ".", "c", "o", "m", "/", "r", "/", "a", "l", "l">>
    [] u = "dropbox" -> <<"h", "t", "t", "p", "s", ":", "/", "/", "w", "w", "w", ".", "d", "r", "o", "p", "b", "o", "x", ".", "c", "o", "m", "/", "h", "o", "m", "e">>
    [] OTHER -> <<>>

\* DEFAULT_PATTERN_CONFIG.socialMediaDomains, lines 17-26, in their order
SocialMediaDomains ==
  <<<<"t", "w", "i", "t", "t", "e", "r", ".", "c", "o", "m">>,
   <<"x", ".", "c", "o", "m">>,
   <<"f", "a", "c", "e", "b", "o", "o", "k", ".", "c", "o", "m">>,
   <<"i", "n", "s", "t", "a", "g", "r", "a", "m", ".", "c", "o", "m">>,
   <<"r", "e", "d", "d", "i", "t", ".", "c", "o", "m">>,
   <<"t", "i", "k", "t", "o", "k", ".", "c", "o", "m">>,
   <<"y", "o", "u", "t", "u", "b", "e", ".", "c", "o", "m">>,
   <<"l", "i", "n", "k", "e", "d", "i", "n", ".", "c", "o", "m">>>>

\* String.prototype.includes
Includes(text, part) ==
  \E i \in 1..(Len(text) - Len(part) + 1) : SubSeq(text, i, i + Len(part) - 1) = part

\* calculateSeverity, lines 230-238: actual / threshold against 2.0 and 1.5
CalculateSeverityAbove(actual, threshold) ==
  IF actual > 2 * threshold THEN "high"
  ELSE IF 2 * actual > 3 * threshold THEN "medium"
  ELSE "low"
CalculateSeverity(actual, threshold) ==
  IF actual >= 2 * threshold THEN "high"
  ELSE IF 2 * actual >= 3 * threshold THEN "medium"
  ELSE "low"

\* detectContextSwitching, lines 72-101, of a detector whose
\* config.contextSwitchThreshold is threshold; the result is a list of zero or
\* one pattern
ContextSwitchingFor(acts, t, threshold) ==
  LET recentSwitches ==
        SelectSeq(acts, LAMBDA a : /\ a.eventType \in {"tab_switch", "app_switch"}
                                   /\ a.timestamp > t - ContextSwitchWindow)
  IN IF Len(recentSwitches) < threshold THEN <<>>
     ELSE <<[type |-> "context_switching",
             severity |-> CalculateSeverity(Len(recentSwitches), threshold),
             count |-> Len(recentSwitches)]>>

\* detectContextSwitching with the default configuration
DetectContextSwitching(acts, t) == ContextSwitchingFor(acts, t, ContextSwitchThreshold)

\* detectSocialMediaSpiral line 113: the url includes some listed domain
IsSocialUrl(url) ==
  \E i \in 1..Len(SocialMediaDomains) : Includes(UrlText(url), SocialMediaDomains[i])

\* detectSocialMediaSpiral line 123: socialMediaDomains.find, the first listed
\* domain the url includes
MatchingDomain(url) ==
  SocialMediaDomains[Min({i \in 1..Len(SocialMediaDomains) :
                            Includes(UrlText(url), SocialMediaDomains[i])})]

\* detectSocialMediaSpiral lines 121-127: the keys of domainCounts, in the order
\* they were inserted
RECURSIVE DomainKeys(_)
DomainKeys(visits) ==
  IF visits = <<>> THEN <<>>
  ELSE LET rest == DomainKeys(SubSeq(visits, 1, Len(visits) - 1))
           domain == MatchingDomain(visits[Len(visits)].url)
       IN IF domain \in Range(rest) THEN rest ELSE Append(rest, domain)

DomainCount(visits, domain) ==
  Cardinality({i \in 1..Len(visits) : MatchingDomain(visits[i].url) = domain})

\* detectSocialMediaSpiral lines 129-131: keys.reduce((a, b) => counts[a] > counts[b] ? a : b)
RECURSIVE ReduceDominant(_, _)
ReduceDominant(keys, visits) ==
  IF Len(keys) = 1 THEN keys[1]
  ELSE LET a == ReduceDominant(SubSeq(keys, 1, Len(keys) - 1), visits)
           b == keys[Len(keys)]
       IN IF DomainCount(visits, a) > DomainCount(visits, b) THEN a ELSE b

\* detectSocialMediaSpiral line 133
SpiralSeverityAbove(n) == IF n > 10 THEN "high" ELSE IF n > 5 THEN "medium" ELSE "low"
SpiralSeverity(n) == IF n >= 10 THEN "high" ELSE IF n >= 5 THEN "medium" ELSE "low"

\* detectSocialMediaSpiral, lines 106-146
DetectSocialMediaSpiral(acts, t) ==
  LET visits ==
        SelectSeq(acts, LAMBDA a :
          /\ ~(a.url = NoUrl \/ a.timestamp <= t - ContextSwitchWindow)
          /\ IsSocialUrl(a.url))
  IN IF Len(visits) < SocialMinVisits THEN <<>>
     ELSE <<[type |-> "social_media_spiral",
             severity |-> SpiralSeverity(Len(visits)),
             count |-> Len(visits),
             dominantDomain |-> ReduceDominant(DomainKeys(visits), visits)]>>

\* detectExtendedIdle, lines 151-183: the idle_end event with the latest
\* timestamp (the first of them, the sort being stable) that has a duration
DetectExtendedIdle(acts) ==
  LET idleEndEvents ==
        SelectSeq(acts, LAMBDA a : a.eventType = "idle_end" /\ a.idleDuration # 0)
  IN IF Len(idleEndEvents) = 0 THEN <<>>
     ELSE
       LET latest == Max({idleEndEvents[i].timestamp : i \in 1..Len(idleEndEvents)})
           first == Min({i \in 1..Len(idleEndEvents) : idleEndEvents[i].timestamp = latest})
           idleDuration == idleEndEvents[first].idleDuration
       IN IF idleDuration < IdleThresholdShort THEN <<>>
          ELSE <<[type |-> "extended_idle",
                  severity |-> IF idleDuration >= IdleThresholdExtended THEN "high"
                               ELSE IF idleDuration >= 120 THEN "medium" ELSE "low",
                  count |-> idleDuration]>>

\* detectFragmentedFocus, lines 188-225: tabSwitches / typingEvents against
\* 0.5, 1.5 and 0.8
DetectFragmentedFocus(acts, t) ==
  LET recent == SelectSeq(acts, LAMBDA a : a.timestamp > t - FragmentedFocusWindow)
      typing == Len(SelectSeq(recent, LAMBDA a : a.eventType = "typing"))
      switches == Len(SelectSeq(recent, LAMBDA a : a.eventType = "tab_switch"))
  IN IF typing < 5 \/ switches < FragmentedFocusThreshold THEN <<>>
     ELSE IF 2 * switches < typing THEN <<>>
     ELSE <<[type |-> "fragmented_focus",
             severity |-> IF 2 * switches >= 3 * typing THEN "high"
                          ELSE IF 5 * switches >= 4 * typing THEN "medium" ELSE "low",
             count |-> switches]>>

\* detectPatterns, lines 39-67, called at time t on a detector whose
\* config.contextSwitchThreshold is threshold
DetectPatternsFor(acts, t, threshold) ==
  ContextSwitchingFor(acts, t, threshold) \o DetectSocialMediaSpiral(acts, t)
    \o DetectExtendedIdle(acts) \o DetectFragmentedFocus(acts, t)

\* detectPatterns with the default configuration
DetectPatterns(acts, t) == DetectPatternsFor(acts, t, ContextSwitchThreshold)

(***************************************************************************)
(* WebSocketHandler: activity:log and analyzePatternAndIntervene           *)
(***************************************************************************)
EventIds == 1..MaxEvents

Rep(n, a) == [i \in 1..n |-> a]

\* activity histories a session can have when the model starts (activities
\* posted before, all stamped StartTime)
Switches(n, url) == Rep(n, Act("tab_switch", StartTime, url, 0))
Histories ==
  {<<>>,
   Switches(ContextSwitchThreshold - 1, "github"),
   Rep(SocialMinVisits, Act("url_change", StartTime, "twitter", 0)),
   Switches(ContextSwitchThreshold, "github") \o <<Act("idle_end", StartTime, NoUrl, 40)>>,
   Switches(FragmentedFocusThreshold, "twitter")
     \o Rep(5, Act("typing", StartTime, NoUrl, 0))
     \o <<Act("idle_end", StartTime, NoUrl, 300)>>}

\* the event types a client sends in activity:log
EventTypes == {"tab_switch"}

\* the ways generateIntervention can reject: the request queue is full, the
\* retries of a throttled request are used up, the model is gone, anything else
InferenceFailures == {"queue_full", "rate_limit", "model_unavailable", "unknown"}

\* index is the position of the event's activity in the store (0: not stored),
\* failure the rejection of its inference request
NoEvent == [sid |-> "none", pc |-> "none", pending |-> <<>>, requests |-> <<>>,
            fired |-> {}, index |-> 0, failure |-> "none"]

OrchIdle ==
  /\ activities = [s \in Sessions |-> <<>>]
  /\ aiConfigured = TRUE
  /\ frontendConnections = {}
  /\ endedSessions = {}
  /\ events = [e \in EventIds |-> NoEvent]
  /\ nextEvent = 0
  /\ delivered = <<>>
  /\ errorEvents = {}

OrchInit ==
  /\ \E h \in Histories : activities = [s \in Sessions |-> IF s = "s1" THEN h ELSE <<>>]
  /\ aiConfigured \in BOOLEAN
  /\ frontendConnections = {"s1"}
  /\ endedSessions = {}
  /\ events = [e \in EventIds |-> NoEvent]
  /\ nextEvent = 0
  /\ delivered = <<>>
  /\ errorEvents = {}

\* analyzePatternAndIntervene line 284: allActivities.slice(-50)
Slice(acts) ==
  IF Len(acts) <= RecentWindow THEN acts
  ELSE SubSeq(acts, Len(acts) - RecentWindow + 1, Len(acts))

\* analyzePatternAndIntervene lines 294-297: the patterns an intervention is
\* generated for
SelectAllPatterns(patterns) == patterns
SelectPatterns(patterns) == IF Len(patterns) > 0 THEN <<patterns[1]>> ELSE <<>>

\* the activity:log handler, lines 165-176: the activity is stored with the
\* client's timestamp (the clocks agree) and analyzePatternAndIntervene is
\* started (it returns at once without an AI service); the rest of the handler
\* emits session:update and focus:update only
ActivityLog(sid, type) ==
  /\ UNCHANGED notOrch
  /\ nextEvent < MaxEvents
  /\ nextEvent' = nextEvent + 1
  /\ activities' = [activities EXCEPT ![sid] = Append(@, Act(type, now, NoUrl, 0))]
  /\ events' = [events EXCEPT ![nextEvent + 1] =
        [sid |-> sid, pc |-> IF aiConfigured THEN "fetch" ELSE "done",
         pending |-> <<>>, requests |-> <<>>, fired |-> {},
         index |-> Len(activities[sid]) + 1, failure |-> "none"]]
  /\ UNCHANGED <<now, aiConfigured, frontendConnections, endedSessions, delivered, errorEvents>>

\* the activity:log handler, lines 165-172 and 212-218: logActivity rejects, the
\* client gets an error event and nothing is analysed
ActivityLogFailed(sid) ==
  /\ UNCHANGED notOrch
  /\ nextEvent < MaxEvents
  /\ nextEvent' = nextEvent + 1
  /\ events' = [events EXCEPT ![nextEvent + 1] = [NoEvent EXCEPT !.sid = sid, !.pc = "done"]]
  /\ errorEvents' = errorEvents \cup {nextEvent + 1}
  /\ UNCHANGED <<now, activities, aiConfigured, frontendConnections, endedSessions, delivered>>

\* analyzePatternAndIntervene lines 283-297: the activities are read, the
\* patterns detected and the intervention requested from the AI service
Analyze(e) ==
  /\ UNCHANGED notOrch
  /\ events[e].pc = "fetch"
  /\ LET recent == Slice(activities[events[e].sid])
         patterns == IF Len(recent) = 0 THEN <<>> ELSE DetectPatterns(recent, now)
         chosen == SelectPatterns(patterns)
         types == [i \in 1..Len(chosen) |-> chosen[i].type]
     IN events' = [events EXCEPT
          ![e].pc = IF Len(chosen) > 0 THEN "awaitAI" ELSE "done",
          ![e].pending = types,
          ![e].requests = types,
          ![e].fired =
             {p \in {"context_switching", "social_media_spiral", "extended_idle",
                     "fragmented_focus"} :
                CASE p = "context_switching" -> DetectContextSwitching(recent, now) # <<>>
                  [] p = "social_media_spiral" -> DetectSocialMediaSpiral(recent, now) # <<>>
                  [] p = "extended_idle" -> DetectExtendedIdle(recent) # <<>>
                  [] OTHER -> DetectFragmentedFocus(recent, now) # <<>>}]
  /\ UNCHANGED <<now, activities, aiConfigured, frontendConnections, endedSessions, nextEvent, delivered,
                 errorEvents>>

\* the sessions whose extension socket is registered and connected: every
\* session is started by a connected extension (session:start, line 92) and
\* removed when it ends (line 150)
ExtensionConnections == Sessions \ endedSessions

\* the listeners an intervention of session sid is emitted to, lines 313-320
Listeners(sid) ==
  (IF sid \in ExtensionConnections THEN <<"extension">> ELSE <<>>)
    \o (IF sid \in frontendConnections THEN <<"frontend">> ELSE <<>>)

\* analyzePatternAndIntervene lines 297-320: generateIntervention resolved
InterventionReady(e) ==
  /\ UNCHANGED notOrch
  /\ events[e].pc = "awaitAI"
  /\ LET sid == events[e].sid
         type == Head(events[e].pending)
         rest == Tail(events[e].pending)
     IN /\ delivered' = delivered \o
             [i \in 1..Len(Listeners(sid)) |->
                [event |-> e, sid |-> sid, to |-> Listeners(sid)[i], at |-> now,
                 type |-> type]]
        /\ events' = [events EXCEPT ![e].pending = rest,
                                    ![e].pc = IF rest = <<>> THEN "done" ELSE "awaitAI"]
  /\ UNCHANGED <<now, activities, aiConfigured, frontendConnections, endedSessions, nextEvent, errorEvents>>

\* analyzePatternAndIntervene lines 322-325: the catch block logs the error;
\* these are the events it answers with an error event
SwallowNothing(e) == {e}
SwallowError(e) == {}

\* analyzePatternAndIntervene lines 297 and 322-325: generateIntervention rejected
InterventionFailed(e, failure) ==
  /\ UNCHANGED notOrch
  /\ events[e].pc = "awaitAI"
  /\ events' = [events EXCEPT ![e].pending = <<>>, ![e].pc = "done",
                              ![e].failure = failure]
  /\ errorEvents' = errorEvents \cup SwallowError(e)
  /\ UNCHANGED <<now, activities, aiConfigured, frontendConnections, endedSessions, nextEvent, delivered>>

\* time passes, half a context-switch window at a time
OrchTick ==
  /\ UNCHANGED notOrch
  /\ now + ContextSwitchWindow \div 2 <= StartTime + MaxOrchTicks * (ContextSwitchWindow \div 2)
  /\ now' = now + ContextSwitchWindow \div 2
  /\ UNCHANGED ovars

\* what the session:end handler does to the rate limiter's throttle record of the
\* session, lines 127-162: nothing
EndSessionThrottle(si, sid) == si

\* the session:end handler, lines 127-162: the session is ended in the store,
\* the frontend and the extension are told and the extension connection is
\* removed (when endSession rejects, only an error event is emitted)
SessionEnd(sid) ==
  /\ sid \notin endedSessions
  /\ endedSessions' = endedSessions \cup {sid}
  /\ sessionInterventions' = EndSessionThrottle(sessionInterventions, sid)
  /\ UNCHANGED <<now, qvars, gvars, ivars, dvars, fvars, cvars, xvars>>
  /\ UNCHANGED <<tokens, requests, lastRefill, grantLog, lastAcquire, runBase, runSum,
                 lastRecord, lastAnswer>>
  /\ UNCHANGED <<activities, aiConfigured, frontendConnections, events, nextEvent, delivered,
                 errorEvents>>

\* sessions ending while interventions are recorded for them
SessionsNext ==
  \/ \E sid \in Sessions, m \in MinIntervals : CanSendCall(sid, m)
  \/ \E sid \in Sessions : RecordIntervention(sid)
  \/ \E sid \in Sessions : SessionEnd(sid)
  \/ ThrottleTick

OrchNext ==
  \/ \E sid \in Sessions, type \in EventTypes : ActivityLog(sid, type)
  \/ \E sid \in Sessions : ActivityLogFailed(sid)
  \/ \E e \in EventIds : Analyze(e)
  \/ \E e \in EventIds : InterventionReady(e)
  \/ \E e \in EventIds, failure \in InferenceFailures : InterventionFailed(e, failure)
  \/ OrchTick

(***************************************************************************)
(* GroqClient                                                              *)
(***************************************************************************)
\* the strings the client and the queue look for and build, as sequences of
\* characters
Str429 ==
  <<"4", "2", "9">>
StrRateLimit ==
  <<"r", "a", "t", "e", "_", "l", "i", "m", "i", "t">>
StrDecommissioned ==
  <<"d", "e", "c", "o", "m", "m", "i", "s", "s", "i", "o", "n", "e", "d">>
StrModelDecommissioned ==
  <<"m", "o", "d", "e", "l", "_", "d", "e", "c", "o", "m", "m", "i", "s", "s", "i", "o", "n",
  "e", "d">>
StrModel ==
  <<"m", "o", "d", "e", "l">>
MsgRateLimitExceeded ==
  <<"R", "a", "t", "e", " ", "l", "i", "m", "i", "t", " ", "e", "x", "c", "e", "e", "d", "e",
  "d", ":", " ">>
Msg8BError ==
  <<"G", "r", "o", "q", " ", "8", "B", " ", "A", "P", "I", " ", "e", "r", "r", "o", "r", ":",
  " ">>
Msg70BError ==
  <<"G", "r", "o", "q", " ", "7", "0", "B", " ", "A", "P", "I", " ", "e", "r", "r", "o", "r",
  ":", " ">>
MsgBothFailed ==
  <<"G", "r", "o", "q", " ", "A", "P", "I", " ", "e", "r", "r", "o", "r", ":", " ", "B", "o",
  "t", "h", " ", "m", "o", "d", "e", "l", "s", " ", "f", "a", "i", "l", "e", "d", ".", " ",
  "7", "0", "B", " ", "e", "r", "r", "o", "r", ":", " ">>
MsgFallbackError ==
  <<",", " ", "8", "B", " ", "f", "a", "l", "l", "b", "a", "c", "k", " ", "e", "r", "r", "o",
  "r", ":", " ">>
MsgHistoryModel ==
  <<"G", "r", "o", "q", " ", "A", "P", "I", " ", "e", "r", "r", "o", "r", ":", " ", "M", "o",
  "d", "e", "l", " ">>
MsgHistoryFallback ==
  <<" ", "f", "a", "i", "l", "e", "d", " ", "a", "n", "d", " ", "f", "a", "l", "l", "b", "a",
  "c", "k", " ", "f", "a", "i", "l", "e", "d", ":", " ">>
MsgHistoryError ==
  <<"G", "r", "o", "q", " ", "A", "P", "I", " ", "e", "r", "r", "o", "r", ":", " ">>
Model8B ==
  <<"l", "l", "a", "m", "a", "-", "3", ".", "1", "-", "8", "b", "-", "i", "n", "s", "t", "a",
  "n", "t">>
Model70B ==
  <<"l", "l", "a", "m", "a", "-", "3", ".", "3", "-", "7", "0", "b", "-", "v", "e", "r", "s",
  "a", "t", "i", "l", "e">>

\* what chat.completions.create does: it returns a completion, or throws an
\* error with a message, a status and a response status (0: none)
ApiOk == [ok |-> TRUE, message |-> <<>>, status |-> 0, responseStatus |-> 0]
ApiError(message, status, responseStatus) ==
  [ok |-> FALSE, message |-> message, status |-> status, responseStatus |-> responseStatus]

\* the errors the API stub can throw
Text429 ==
  <<"4", "2", "9", " ", "T", "o", "o", " ", "M", "a", "n", "y", " ", "R", "e", "q", "u", "e",
  "s", "t", "s">>
TextTooMany ==
  <<"T", "o", "o", " ", "M", "a", "n", "y", " ", "R", "e", "q", "u", "e", "s", "t", "s">>
TextDecommissioned ==
  <<"T", "h", "e", " ", "m", "o", "d", "e", "l", " ", "h", "a", "s", " ", "b", "e", "e", "n",
  " ", "d", "e", "c", "o", "m", "m", "i", "s", "s", "i", "o", "n", "e", "d">>
TextBadModel ==
  <<"U", "n", "k", "n", "o", "w", "n", " ", "m", "o", "d", "e", "l", " ", "i", "d">>
TextBoom ==
  <<"C", "o", "n", "n", "e", "c", "t", "i", "o", "n", " ", "r", "e", "s", "e", "t">>
Err429 == ApiError(Text429, 429, 429)
\* a 429 whose response carries a retry-after header of 2 seconds
ErrRetryAfter ==
  [ok |-> FALSE, message |-> Text429, status |-> 429, responseStatus |-> 429,
   retryAfter |-> 2]
ErrStatus429 == ApiError(TextTooMany, 429, 429)
ErrDecommissioned == ApiError(TextDecommissioned, 0, 0)
ErrBadModel == ApiError(TextBadModel, 400, 400)
ErrBoom == ApiError(TextBoom, 0, 0)

\* generateFast line 56, generateDeep line 115, generateWithHistory line 194
ClientSeesRateLimit(err) ==
  Includes(err.message, Str429) \/ Includes(err.message, StrRateLimit) \/ err.status = 429

\* generateDeep lines 125-129, generateWithHistory lines 204-208
ModelUnavailable(err) ==
  \/ Includes(err.message, StrDecommissioned)
  \/ Includes(err.message, StrModelDecommissioned)
  \/ (err.responseStatus = 400 /\ Includes(err.message, StrModel))

\* extractRetryAfter, lines 80-89; 0 stands for null
ExtractRetryAfter(err) == IF "retryAfter" \in DOMAIN err THEN err.retryAfter ELSE 0

\* generateFast lines 56-62, generateDeep lines 115-120, generateWithHistory
\* lines 194-199: the seconds the closure of call d sleeps before it throws
RetryAfterSleep(d) ==
  IF ~d.first.ok /\ ClientSeesRateLimit(d.first) THEN ExtractRetryAfter(d.first) ELSE 0

\* options?.maxTokens || this.config.maxTokens
EstimatedTokens(maxTokens) == IF maxTokens = 0 THEN ConfigMaxTokens ELSE maxTokens

\* one call of the API as the stub saw it
ApiCall(model, maxTokens) == [model |-> model, maxTokens |-> maxTokens]

Returned(output, calls) == [ok |-> TRUE, message |-> <<>>, output |-> output, calls |-> calls]
Thrown(message, calls) == [ok |-> FALSE, message |-> message, output |-> "none", calls |-> calls]

\* the closure generateFast enqueues, lines 41-69; d.first is what the API does
FastClosure(d) ==
  LET calls == <<ApiCall("8B", EstimatedTokens(d.maxTokens))>>
  IN IF d.first.ok THEN Returned("8B", calls)
     ELSE IF ClientSeesRateLimit(d.first)
       THEN Thrown(MsgRateLimitExceeded \o d.first.message, calls)
       ELSE Thrown(Msg8BError \o d.first.message, calls)

\* generateDeep line 136
FallbackTokens(estimatedTokens) == Min({estimatedTokens * 2, FallbackCap})

\* the closure generateDeep enqueues, lines 100-158; d.fallback is what the API
\* does when it is called for the 8B model
DeepClosure(d) ==
  LET est == EstimatedTokens(d.maxTokens)
      first == <<ApiCall("70B", est)>>
      both == first \o <<ApiCall("8B", FallbackTokens(est))>>
  IN IF d.first.ok THEN Returned("70B", first)
     ELSE IF ClientSeesRateLimit(d.first)
       THEN Thrown(MsgRateLimitExceeded \o d.first.message, first)
     ELSE IF ModelUnavailable(d.first)
       THEN IF d.fallback.ok THEN Returned("8B", both)
            ELSE Thrown(MsgBothFailed \o d.first.message \o MsgFallbackError
                          \o d.fallback.message, both)
     ELSE Thrown(Msg70BError \o d.first.message, first)

\* the closure generateWithHistory enqueues, lines 179-234
HistoryClosure(d) ==
  LET est == EstimatedTokens(d.maxTokens)
      modelToUse == IF d.useFastModel THEN "8B" ELSE "70B"
      first == <<ApiCall(modelToUse, est)>>
      both == first \o <<ApiCall("8B", est)>>
  IN IF d.first.ok THEN Returned(modelToUse, first)
     ELSE IF ClientSeesRateLimit(d.first)
       THEN Thrown(MsgRateLimitExceeded \o d.first.message, first)
     ELSE IF ModelUnavailable(d.first)
       THEN IF d.fallback.ok THEN Returned("8B", both)
            ELSE Thrown(MsgHistoryModel \o (IF d.useFastModel THEN Model8B ELSE Model70B)
                          \o MsgHistoryFallback \o d.fallback.message, both)
     ELSE Thrown(MsgHistoryError \o d.first.message, first)

\* a call of the client: the method, its arguments and what the API stub does
\* for it (the same each time the closure is invoked)
GroqRequest(method, useFastModel, maxTokens, first, fallback) ==
  [method |-> method, useFastModel |-> useFastModel, maxTokens |-> maxTokens,
   first |-> first, fallback |-> fallback]
NoClosure == GroqRequest("none", TRUE, 0, ApiOk, ApiOk)

Closure(d) ==
  CASE d.method = "fast" -> FastClosure(d)
    [] d.method = "deep" -> DeepClosure(d)
    [] OTHER -> HistoryClosure(d)

\* the calls of the model
GroqRequests ==
  {GroqRequest("fast", TRUE, 150, ApiOk, ApiOk),
   GroqRequest("fast", TRUE, 150, Err429, ApiOk),
   GroqRequest("fast", TRUE, 0, ErrStatus429, ApiOk),
   GroqRequest("fast", TRUE, 150, ErrRetryAfter, ApiOk),
   GroqRequest("deep", TRUE, 1000, ErrDecommissioned, ApiOk),
   GroqRequest("deep", TRUE, 3000, ErrBadModel, ApiOk),
   GroqRequest("deep", TRUE, 1000, ErrDecommissioned, ErrBoom),
   GroqRequest("deep", TRUE, 1000, ErrDecommissioned, Err429),
   GroqRequest("deep", TRUE, 0, ErrBoom, ApiOk),
   GroqRequest("history", FALSE, 200, ErrDecommissioned, ApiOk)}

GroqIdle == closures = [r \in ReqIds |-> NoClosure]
GroqInit ==
  \E f \in [1..MaxGroqCalls -> GroqRequests] :
    closures = [r \in ReqIds |-> IF r <= MaxGroqCalls THEN f[r] ELSE NoClosure]

\* requestQueue.ts lines 111-112, applied to the message the closure throws
QueueSeesRateLimit(message) ==
  Includes(message, Str429) \/ Includes(message, StrRateLimit)

\* how the request queue sees the closure of a call
ClosureKind(d) ==
  IF Closure(d).ok THEN "ok"
  ELSE IF QueueSeesRateLimit(Closure(d).message) THEN "throttle" ELSE "error"

\* generateFast, lines 37-75
GenerateFast ==
  /\ nextId < MaxGroqCalls
  /\ closures[nextId + 1].method = "fast"
  /\ Enqueue([priority |-> 1, maxRetries |-> 0, kind |-> ClosureKind(closures[nextId + 1])])

\* generateDeep, lines 96-164
GenerateDeep ==
  /\ nextId < MaxGroqCalls
  /\ closures[nextId + 1].method = "deep"
  /\ Enqueue([priority |-> 0, maxRetries |-> 0, kind |-> ClosureKind(closures[nextId + 1])])

\* generateWithHistory, lines 170-239
GenerateWithHistory ==
  /\ nextId < MaxGroqCalls
  /\ closures[nextId + 1].method = "history"
  /\ Enqueue([priority |-> IF closures[nextId + 1].useFastModel THEN 1 ELSE 0,
              maxRetries |-> 0, kind |-> ClosureKind(closures[nextId + 1])])

\* the closure settles without sleeping
ClosureDone(l) ==
  /\ loopPc[l] = "exec"
  /\ RetryAfterSleep(closures[loopReq[l]]) = 0
  /\ ExecDone(l)

\* the closure caught a rate limit error with a retry-after and sleeps, the
\* drain loop awaiting it
ClosureSleeps(l) ==
  /\ UNCHANGED notQueue
  /\ loopPc[l] = "exec"
  /\ RetryAfterSleep(closures[loopReq[l]]) > 0
  /\ loopPc' = [loopPc EXCEPT ![l] = "retryAfter"]
  /\ UNCHANGED <<queue, processing, reqs, promise, promiseVal, nextId, timers,
                 loopReq, execCount, delays, enqAfterStart>>

\* the sleep is over and the closure throws
ClosureWakes(l) == ExecSettled(l, "retryAfter")

GroqNext ==
  \/ GenerateFast
  \/ GenerateDeep
  \/ GenerateWithHistory
  \/ \E l \in LoopIds : AcquireDenied(l)
  \/ \E l \in LoopIds : SleepDone(l)
  \/ \E l \in LoopIds : AcquireGranted(l)
  \/ \E l \in LoopIds : ClosureDone(l)
  \/ \E l \in LoopIds : ClosureSleeps(l)
  \/ \E l \in LoopIds : ClosureWakes(l)
  \/ \E r \in ReqIds : RetryTimerFire(r)

(***************************************************************************)
(* InsightsService                                                         *)
(***************************************************************************)
NoInsights == [sid |-> "none", activityCount |-> 0, attempted |-> FALSE, ai |-> "none",
               result |-> "none", insights |-> "none", recommendations |-> "none"]

InsightsIdle == lastInsights = NoInsights

\* generateSessionInsights lines 40-41: is the AI service asked
AttemptsInferenceAlways(configured) == TRUE
AttemptsInference(configured) == configured

\* generateSessionInsights, lines 28-70, for a session with n activities; ai is
\* what aiService.generateSessionInsights does if it is called: "ok" or the
\* way it rejects
SessionInsights(sid, n, configured, ai) ==
  IF n = 0
    THEN [NoInsights EXCEPT !.sid = sid, !.result = "error"]
    ELSE LET attempted == AttemptsInference(configured)
             aiInsights == attempted /\ ai = "ok"
         IN [sid |-> sid, activityCount |-> n, attempted |-> attempted,
             ai |-> IF attempted THEN ai ELSE "none",
             result |-> "returned",
             insights |-> IF aiInsights THEN "ai" ELSE "fallback",
             recommendations |-> IF aiInsights THEN "ai" ELSE "pattern"]

GenerateSessionInsights(sid, ai) ==
  /\ UNCHANGED notInsights
  /\ lastInsights' = SessionInsights(sid, Len(activities[sid]), aiConfigured, ai)

\* the sessions' activity histories of the insights specification
InsightsHistories ==
  {<<>>, Switches(ContextSwitchThreshold, "github") \o <<Act("idle_end", StartTime, NoUrl, 40)>>}

InsightsInit ==
  /\ \E h \in InsightsHistories :
       activities = [s \in Sessions |-> IF s = "s1" THEN h ELSE <<>>]
  /\ aiConfigured \in BOOLEAN
  /\ frontendConnections = {"s1"}
  /\ endedSessions = {}
  /\ events = [e \in EventIds |-> NoEvent]
  /\ nextEvent = 0
  /\ delivered = <<>>
  /\ errorEvents = {}

InsightsNext ==
  \/ \E sid \in Sessions, type \in EventTypes : ActivityLog(sid, type)
  \/ \E sid \in Sessions : ActivityLogFailed(sid)
  \/ \E e \in EventIds : Analyze(e)
  \/ \E e \in EventIds : InterventionReady(e)
  \/ \E e \in EventIds, failure \in InferenceFailures : InterventionFailed(e, failure)
  \/ \E sid \in Sessions, ai \in {"ok"} \cup InferenceFailures :
       GenerateSessionInsights(sid, ai)

(***************************************************************************)
(* PatternDetector.detectPatterns called on given activities               *)
(***************************************************************************)
NoOutput == [at |-> 0, patterns |-> <<"none">>]
DetectIdle ==
  detectInput = [acts |-> <<>>, threshold |-> ContextSwitchThreshold]
    /\ detectOutput = NoOutput

HalfWindow == ContextSwitchWindow \div 2

\* switches: a tab switches and b app switches stamped half a window after the
\* start, c tab switches and typing events stamped at the start
SwitchInputs ==
  {[acts |-> Rep(c, Act("tab_switch", StartTime, "github", 0))
               \o Rep(c, Act("typing", StartTime, NoUrl, 0))
               \o Rep(a, Act("tab_switch", StartTime + HalfWindow, "github", 0))
               \o Rep(b, Act("app_switch", StartTime + HalfWindow, NoUrl, 0)),
    threshold |-> th] :
     a \in 0..MaxSwitches, b \in 0..1, c \in 0..1, th \in {ContextSwitchThreshold, 3}}

\* visits: a of twitter and b of reddit, in either order, c of dropbox, one
\* of github, all stamped half a window after the start, and o of twitter
\* stamped at the start
VisitInputs ==
  {[acts |-> Rep(o, Act("url_change", StartTime, "twitter", 0))
               \o (IF first
                     THEN Rep(a, Act("url_change", StartTime + HalfWindow, "twitter", 0))
                            \o Rep(b, Act("url_change", StartTime + HalfWindow, "reddit", 0))
                     ELSE Rep(b, Act("url_change", StartTime + HalfWindow, "reddit", 0))
                            \o Rep(a, Act("url_change", StartTime + HalfWindow, "twitter", 0)))
               \o Rep(c, Act("url_change", StartTime + HalfWindow, "dropbox", 0))
               \o <<Act("url_change", StartTime + HalfWindow, "github", 0)>>,
    threshold |-> ContextSwitchThreshold] :
     a \in 0..MaxVisits, b \in 0..2, c \in 0..1, o \in 0..1, first \in BOOLEAN}

\* idle periods: two idle_end events, each carrying its duration in seconds
\* (0 is a duration of zero seconds), the later one first or last in the list
IdleDurations ==
  {0, IdleThresholdShort - 1, IdleThresholdShort, 119, 120, IdleThresholdExtended - 1,
   IdleThresholdExtended}
IdleEndInputs ==
  {[acts |-> <<Act("idle_end", StartTime + (IF laterFirst THEN HalfWindow ELSE 0), NoUrl, d1),
               Act("typing", StartTime, NoUrl, 0),
               Act("idle_end", StartTime + (IF laterFirst THEN 0 ELSE HalfWindow), NoUrl, d2)>>,
    threshold |-> ContextSwitchThreshold] :
     d1 \in IdleDurations, d2 \in IdleDurations, laterFirst \in BOOLEAN}

DetectInit ==
  /\ detectInput \in SwitchInputs \cup VisitInputs \cup IdleEndInputs
  /\ detectOutput = NoOutput

\* detectPatterns is called
Detect ==
  /\ UNCHANGED notDetect
  /\ detectOutput = NoOutput
  /\ detectOutput' = [at |-> now,
                      patterns |-> DetectPatternsFor(detectInput.acts, now,
                                                     detectInput.threshold)]
  /\ UNCHANGED <<now, detectInput>>

\* time passes before the call, half a window at a time
DetectTick ==
  /\ UNCHANGED notDetect
  /\ detectOutput = NoOutput
  /\ now + HalfWindow <= StartTime + MaxDetectTicks * HalfWindow
  /\ now' = now + HalfWindow
  /\ UNCHANGED <<detectInput, detectOutput>>

DetectNext == Detect \/ DetectTick

(***************************************************************************)
(* FocusScoreCalculator.calculateMinimalIdle                               *)
(*                                                                         *)
(* The numbers of the code are quotients of integers here: the pair n, d   *)
(* with d > 0 stands for n / d.                                            *)
(***************************************************************************)
\* Math.round: the nearest integer, a half going up
Round(n, d) == (2 * n + d) \div (2 * d)

\* line 136: the idle_end events that carry an idle duration
IdleEvents(acts) ==
  SelectSeq(acts, LAMBDA a : a.eventType = "idle_end" /\ a.idleDuration # 0)

\* line 138
RECURSIVE TotalIdleSeconds(_)
TotalIdleSeconds(idleEvents) ==
  IF idleEvents = <<>> THEN 0
  ELSE TotalIdleSeconds(SubSeq(idleEvents, 1, Len(idleEvents) - 1))
         + idleEvents[Len(idleEvents)].idleDuration

\* lines 139 and 143: (totalIdleSeconds / (sessionDurationMs / 1000)) * 100,
\* as numerator and denominator
IdlePercentage(totalIdleSeconds, sessionDurationMs) ==
  [n |-> totalIdleSeconds * 1000 * 100, d |-> sessionDurationMs]

\* line 152: 100 - (idlePercentage - 10)
GoodIdle(p) == Round(100 * p.d - (p.n - 10 * p.d), p.d)

\* line 153: 80 - (idlePercentage - 20) * 1.5
ModerateIdleFrom100(p) == Round(2 * 100 * p.d - 3 * (p.n - 20 * p.d), 2 * p.d)
ModerateIdle(p) == Round(2 * 80 * p.d - 3 * (p.n - 20 * p.d), 2 * p.d)

\* line 154: 50 - (idlePercentage - 40) * 1.25, not below 0
PoorIdle(p) == Max({0, Round(4 * 50 * p.d - 5 * (p.n - 40 * p.d), 4 * p.d)})

CalculateMinimalIdle(acts, sessionDurationMs) ==
  LET totalIdleSeconds == TotalIdleSeconds(IdleEvents(acts))
      p == IdlePercentage(totalIdleSeconds, sessionDurationMs)
  IN  IF sessionDurationMs = 0 THEN 50
      ELSE IF p.n <= 10 * p.d THEN 100
      ELSE IF p.n <= 20 * p.d THEN GoodIdle(p)
      ELSE IF p.n <= 40 * p.d THEN ModerateIdle(p)
      ELSE PoorIdle(p)

FocusIdle ==
  focusInput = [acts |-> <<>>, sessionDurationMs |-> 0] /\ focusOutput = <<>>

\* session durations: none, 70 seconds, two minutes
SessionDurations == {0, 70000, 120000}
\* idle periods in seconds: 5%, 15% and 40% of two minutes
IdlePeriods == {6, 18, 48}
\* the other activities of the session: typing, a switch, an idle_start that
\* carries a duration, an idle_end that carries none
OtherActivities ==
  {<<>>,
   <<Act("typing", StartTime, NoUrl, 0), Act("tab_switch", StartTime, "github", 0),
     Act("idle_start", StartTime, NoUrl, 48), Act("idle_end", StartTime, NoUrl, 0)>>}

FocusInit ==
  /\ focusInput \in [acts : OtherActivities, sessionDurationMs : SessionDurations]
  /\ focusOutput = <<>>

\* calculate is called on the activities of the session
Calculate ==
  /\ UNCHANGED notFocus
  /\ Len(focusOutput) < MaxFocusCalls
  /\ IF focusOutput = <<>> THEN TRUE
     ELSE focusOutput[Len(focusOutput)].acts # focusInput.acts
  /\ focusOutput' =
       Append(focusOutput,
              [acts |-> focusInput.acts,
               minimalIdle |-> CalculateMinimalIdle(focusInput.acts,
                                                    focusInput.sessionDurationMs)])
  /\ UNCHANGED focusInput

\* the same session with one more idle period
IdleEnd(seconds) ==
  /\ UNCHANGED notFocus
  /\ Len(IdleEvents(focusInput.acts)) < MaxIdleEvents
  /\ focusInput' =
       [focusInput EXCEPT !.acts = Append(@, Act("idle_end", StartTime, NoUrl, seconds))]
  /\ UNCHANGED focusOutput

FocusNext ==
  \/ Calculate
  \/ \E seconds \in IdlePeriods : IdleEnd(seconds)

(***************************************************************************)
(* FocusScoreCalculator.calculate                                          *)
(***************************************************************************)
\* an Activity of a typing burst; typingVelocity 0 stands for null
Typing(velocity) ==
  [eventType |-> "typing", timestamp |-> StartTime, url |-> NoUrl, idleDuration |-> 0,
   typingVelocity |-> velocity]
TypingVelocity(a) == IF "typingVelocity" \in DOMAIN a THEN a.typingVelocity ELSE 0
\* the typing velocity 1e308, a number so large that two of them add up to
\* Infinity and its square is Infinity
Huge == Pow2(30)
\* the number NaN
NaN == -1

RECURSIVE SumSeq(_)
SumSeq(s) == IF s = <<>> THEN 0 ELSE SumSeq(SubSeq(s, 1, Len(s) - 1)) + s[Len(s)]

\* DEFAULT_FOCUS_SCORE_CONFIG, lines 22-52; the weights in tenths
DomainGithub == <<"g", "i", "t", "h", "u", "b", ".", "c", "o", "m">>
DomainDropbox == <<"d", "r", "o", "p", "b", "o", "x", ".", "c", "o", "m">>
DefaultFocusScoreConfig ==
  [weights |-> [typingConsistency |-> 4, lowContextSwitching |-> 3, minimalIdle |-> 2,
                siteFocus |-> 1],
   productiveDomains |->
     <<DomainGithub,
       <<"s", "t", "a", "c", "k", "o", "v", "e", "r", "f", "l", "o", "w", ".", "c", "o", "m">>,
       <<"d", "o", "c", "s", ".", "g", "o", "o", "g", "l", "e", ".", "c", "o", "m">>,
       <<"n", "o", "t", "i", "o", "n", ".", "s", "o">>,
       <<"f", "i", "g", "m", "a", ".", "c", "o", "m">>,
       <<"v", "s", "c", "o", "d", "e", ".", "d", "e", "v">>,
       <<"r", "e", "p", "l", "i", "t", ".", "c", "o", "m">>,
       <<"c", "o", "d", "e", "s", "a", "n", "d", "b", "o", "x", ".", "i", "o">>,
       <<"v", "e", "r", "c", "e", "l", ".", "c", "o", "m">>,
       <<"n", "e", "t", "l", "i", "f", "y", ".", "c", "o", "m">>>>,
   distractingDomains |->
     <<SocialMediaDomains[1], SocialMediaDomains[2], SocialMediaDomains[3],
       SocialMediaDomains[4], SocialMediaDomains[5], SocialMediaDomains[6],
       SocialMediaDomains[7],
       <<"n", "e", "t", "f", "l", "i", "x", ".", "c", "o", "m">>,
       <<"t", "w", "i", "t", "c", "h", ".", "t", "v">>>>]

\* calculateTypingConsistency, lines 84-107.  With n velocities of sum S and
\* sum of squares Q the squared coefficient of variation is (n*Q - S*S) / (S*S),
\* and round(100 - cv * 200) >= k exactly when 400 * cv <= 201 - 2 * k
CalculateTypingConsistency(acts) ==
  LET typingEvents ==
        SelectSeq(acts, LAMBDA a : a.eventType = "typing" /\ TypingVelocity(a) # 0)
      n == Len(typingEvents)
      S == SumSeq([i \in 1..n |-> TypingVelocity(typingEvents[i])])
      Q == SumSeq([i \in 1..n |-> TypingVelocity(typingEvents[i])
                                    * TypingVelocity(typingEvents[i])])
      reached == {k \in 0..100 :
                    160000 * (n * Q - S * S) <= (201 - 2 * k) * (201 - 2 * k) * S * S}
      huge == Cardinality({i \in 1..n : TypingVelocity(typingEvents[i]) = Huge})
  IN  IF n < 3 THEN 50
      \* avgVelocity is Infinity, so are variance and stdDev: cv is Infinity /
      \* Infinity, which is NaN, and Math.max, Math.min and Math.round keep NaN
      ELSE IF huge >= 2 THEN NaN
      \* avgVelocity is finite, variance and cv are Infinity: Math.max(0, -Infinity)
      ELSE IF huge = 1 THEN 0
      ELSE IF S <= 0 THEN 0
      ELSE IF reached = {} THEN 0 ELSE Max(reached)

\* calculateLowContextSwitching, lines 112-130; switches per hour as a
\* numerator and a denominator
CalculateLowContextSwitchingUnguarded(acts, sessionDurationMs) ==
  LET switches ==
        SelectSeq(acts, LAMBDA a : a.eventType \in {"tab_switch", "app_switch"})
      n == Len(switches) * 1000 * 60 * 60
      d == sessionDurationMs
  IN  IF d = 0 THEN (IF n = 0 THEN NaN ELSE 0)
      ELSE IF n <= 5 * d THEN 100
      ELSE IF n <= 15 * d THEN Round(100 * d - 3 * (n - 5 * d), d)
      ELSE IF n <= 30 * d THEN Round(70 * d - 2 * (n - 15 * d), d)
      ELSE Max({0, Round(40 * d - (n - 30 * d), d)})
CalculateLowContextSwitching(acts, sessionDurationMs) ==
  LET switches ==
        SelectSeq(acts, LAMBDA a : a.eventType \in {"tab_switch", "app_switch"})
      n == Len(switches) * 1000 * 60 * 60
      d == sessionDurationMs
  IN  IF sessionDurationMs = 0 THEN 50
      ELSE IF n <= 5 * d THEN 100
      ELSE IF n <= 15 * d THEN Round(100 * d - 3 * (n - 5 * d), d)
      ELSE IF n <= 30 * d THEN Round(70 * d - 2 * (n - 15 * d), d)
      ELSE Max({0, Round(40 * d - (n - 30 * d), d)})

\* calculateSiteFocus, lines 160-206, of a calculator whose config is config
CalculateSiteFocus(acts, config) ==
  LET urlActivities == SelectSeq(acts, LAMBDA a : a.url # NoUrl)
      Some(domains, a) ==
        \E k \in 1..Len(domains) : Includes(UrlText(a.url), domains[k])
      total == Len(urlActivities)
      productiveCount ==
        Cardinality({i \in 1..total : Some(config.productiveDomains, urlActivities[i])})
      distractingCount ==
        Cardinality({i \in 1..total :
                       /\ ~Some(config.productiveDomains, urlActivities[i])
                       /\ Some(config.distractingDomains, urlActivities[i])})
  IN  IF total = 0 THEN 50
      ELSE IF 2 * distractingCount > total
        THEN Round(30 * (total - distractingCount), total)
      ELSE IF 10 * productiveCount > 7 * total THEN 100
      ELSE IF 10 * productiveCount > 4 * total
        THEN Round(70 * total + 30 * productiveCount, total)
      ELSE Round(50 * total + 40 * productiveCount, total)

\* calculate, lines 60-79; overall is in tenths, as Math.round(overall * 10)
CalculateScore(acts, sessionDurationMs, config) ==
  LET typingConsistency == CalculateTypingConsistency(acts)
      lowContextSwitching == CalculateLowContextSwitching(acts, sessionDurationMs)
      minimalIdle == CalculateMinimalIdle(acts, sessionDurationMs)
      siteFocus == CalculateSiteFocus(acts, config)
  IN  [typingConsistency |-> typingConsistency,
       lowContextSwitching |-> lowContextSwitching,
       minimalIdle |-> minimalIdle,
       siteFocus |-> siteFocus,
       overall |-> IF NaN \in {typingConsistency, lowContextSwitching, minimalIdle,
                                 siteFocus}
                     THEN NaN
                     ELSE typingConsistency * config.weights.typingConsistency
                            + lowContextSwitching * config.weights.lowContextSwitching
                            + minimalIdle * config.weights.minimalIdle
                            + siteFocus * config.weights.siteFocus]

\* the activities array after calculate has read it: filter, map, reduce and
\* forEach leave it as it was
ActivitiesConsumed(acts) == <<>>
ActivitiesAfterCalculate(acts) == acts

\* the calculators of the program: the one of SessionService's analysis
\* service and the one of the server's; both hold the default config object
Calculators == {"sessionService", "server"}

\* arguments of updateConfig: new weights for two components, a new list of
\* productive domains
ConfigUpdates ==
  {[given |-> {"weights"},
    weights |-> [typingConsistency |-> 5, minimalIdle |-> 1],
    productiveDomains |-> <<>>, distractingDomains |-> <<>>],
   [given |-> {"productiveDomains"},
    weights |-> [typingConsistency |-> 0, minimalIdle |-> 0],
    productiveDomains |-> <<DomainDropbox>>, distractingDomains |-> <<>>]}

\* updateConfig, lines 211-221, on the config object the calculator holds;
\* update.given are the keys the argument carries
MergeConfig(config, update) ==
  [weights |-> IF "weights" \notin update.given THEN config.weights
               ELSE [k \in DOMAIN config.weights |->
                       IF k \in DOMAIN update.weights THEN update.weights[k]
                       ELSE config.weights[k]],
   productiveDomains |-> IF "productiveDomains" \notin update.given
                           THEN config.productiveDomains ELSE update.productiveDomains,
   distractingDomains |-> IF "distractingDomains" \notin update.given
                            THEN config.distractingDomains ELSE update.distractingDomains]

\* PatternAnalysisService.calculateTrend, lines 152-159; percentChange is the
\* quotient n / d, which is not a number when both are 0
PercentChange(currentScore, historicalAverage) ==
  [n |-> (currentScore - historicalAverage) * 100, d |-> historicalAverage]
AtLeast(p, bound) ==
  IF p.d > 0 THEN p.n >= bound * p.d
  ELSE IF p.d < 0 THEN p.n <= bound * p.d
  ELSE p.n > 0
AtMost(p, bound) ==
  IF p.d > 0 THEN p.n <= bound * p.d
  ELSE IF p.d < 0 THEN p.n >= bound * p.d
  ELSE p.n < 0
CalculateTrendAbove(currentScore, historicalAverage) ==
  LET percentChange == PercentChange(currentScore, historicalAverage)
  IN  IF ~AtMost(percentChange, 10) THEN "improving"
      ELSE IF ~AtLeast(percentChange, 0 - 10) THEN "declining"
      ELSE "stable"
CalculateTrend(currentScore, historicalAverage) ==
  LET percentChange == PercentChange(currentScore, historicalAverage)
  IN  IF AtLeast(percentChange, 10) THEN "improving"
      ELSE IF AtMost(percentChange, 0 - 10) THEN "declining"
      ELSE "stable"

NoTrend == [currentScore |-> 0, historicalAverage |-> 0, trend |-> "none"]
ScoreIdle ==
  defaultConfig = DefaultFocusScoreConfig /\ calculateCalls = <<>> /\ trendCall = NoTrend

\* activity lists: typing bursts of given velocities, g tab switches to
\* github, t app switches to twitter, an idle period
TypingOptions == {<<6, 6>>, <<4, 6, 8>>, <<1, 9, 5, 0>>}
ScoreActivities ==
  {[i \in 1..Len(v) |-> Typing(v[i])]
     \o Rep(g, Act("tab_switch", StartTime, "github", 0))
     \o Rep(t, Act("app_switch", StartTime, "twitter", 0))
     \o <<Act("idle_end", StartTime, NoUrl, 18)>> :
     v \in TypingOptions, g \in {0, 3}, t \in {0, 1}}
\* session durations: none, twenty minutes
ScoreDurations == {0, 1200000}
\* a second activity list, for the calls made in between
OtherInput ==
  [acts |-> <<Typing(6), Act("url_change", StartTime, "dropbox", 0)>>,
   sessionDurationMs |-> 120000]

ScoreInit ==
  /\ focusInput \in [acts : ScoreActivities, sessionDurationMs : ScoreDurations]
  /\ focusOutput = <<>>
  /\ ScoreIdle

\* calculator c is called on input
CalculateCall(c, input) ==
  /\ UNCHANGED notScore
  /\ Len(calculateCalls) < MaxCalculateCalls
  /\ calculateCalls' =
       Append(calculateCalls,
              [calculator |-> c,
               acts |-> input.acts,
               sessionDurationMs |-> input.sessionDurationMs,
               config |-> defaultConfig,
               score |-> CalculateScore(input.acts, input.sessionDurationMs, defaultConfig),
               actsAfter |-> ActivitiesAfterCalculate(input.acts)])
  /\ UNCHANGED <<defaultConfig, trendCall>>

\* updateConfig is called on calculator c
UpdateConfig(c, update) ==
  /\ UNCHANGED notScore
  /\ defaultConfig' = MergeConfig(defaultConfig, update)
  /\ defaultConfig' # defaultConfig
  /\ UNCHANGED <<calculateCalls, trendCall>>

\* scores and historical averages given to calculateTrend
TrendScores == 0..100
TrendAverages == {0, 50, 77, 80, 100}
TrendInit ==
  /\ focusInput = [acts |-> <<>>, sessionDurationMs |-> 0] /\ focusOutput = <<>>
  /\ defaultConfig = DefaultFocusScoreConfig /\ calculateCalls = <<>>
  /\ trendCall \in [currentScore : TrendScores, historicalAverage : TrendAverages,
                     trend : {"none"}]

\* calculateTrend is called
TrendCall ==
  /\ UNCHANGED notScore
  /\ trendCall.trend = "none"
  /\ trendCall' = [trendCall EXCEPT
                     !.trend = CalculateTrend(trendCall.currentScore,
                                              trendCall.historicalAverage)]
  /\ UNCHANGED <<defaultConfig, calculateCalls>>

TrendNext == TrendCall

\* degenerate input: no activities, typing velocities that overflow, a
\* session of no duration or of a millisecond
DegenerateActivities ==
  ScoreActivities
    \cup {<<>>,
          <<Typing(Huge), Typing(6), Typing(6)>>,
          <<Typing(Huge), Typing(Huge), Typing(6), Act("tab_switch", StartTime, "github", 0)>>}
DegenerateDurations == ScoreDurations \cup {1}
DegenerateInit ==
  /\ focusInput \in [acts : DegenerateActivities, sessionDurationMs : DegenerateDurations]
  /\ focusOutput = <<>>
  /\ ScoreIdle
  /\ detectInput = [acts |-> <<>>, threshold |-> ContextSwitchThreshold]
  /\ detectOutput = NoOutput

\* the calculators and the detector called on the degenerate input
DegenerateNext ==
  \/ \E c \in Calculators : CalculateCall(c, focusInput)
  \/ Detect
  \/ DetectTick

\* updateConfig is called on the server's calculator only, calculate on the
\* one of SessionService only
ConfigNext ==
  \/ \E input \in {focusInput, OtherInput} : CalculateCall("sessionService", input)
  \/ \E update \in ConfigUpdates : UpdateConfig("server", update)

ScoreNext ==
  \/ \E c \in Calculators, input \in {focusInput, OtherInput} : CalculateCall(c, input)
  \/ \E c \in Calculators, update \in ConfigUpdates : UpdateConfig(c, update)

(***************************************************************************)
(* Extension: WebSocketClient (extension/src/background/webSocketClient.ts) *)
(*                                                                         *)
(* io() gives a new Socket that is connecting; with reconnection: false it *)
(* connects or fails once and never reopens.  A socket that is closed and  *)
(* that this.socket does not name any more emits nothing further and is    *)
(* left out of `sockets`.                                                  *)
(***************************************************************************)
SocketIds == 1..(MaxConcurrentConnects + 1)
NoSocket == 0
SocketStates == {"none", "connecting", "connected", "closed"}

\* this.socket?.connected, isConnected()
IsConnectedIn(sock, ss) == sock # NoSocket /\ ss[sock] = "connected"
IsConnected == IsConnectedIn(socket, sockets)

LiveSockets == {s \in SocketIds : sockets[s] \in {"connecting", "connected"}}
ConnectActivities == connectCalls + reconnectTimers + Cardinality(LiveSockets)

Forget(ss, keep) ==
  [s \in SocketIds |-> IF ss[s] = "closed" /\ s # keep THEN "none" ELSE ss[s]]

\* Math.min(this.reconnectDelay * Math.pow(2, this.reconnectAttempts), this.maxReconnectDelay)
ReconnectDelayOf(attempts) ==
  Min({ReconnectDelay * Pow2(attempts), MaxReconnectDelay})

SocketInit ==
  /\ socket = NoSocket
  /\ sockets = [s \in SocketIds |-> "none"]
  /\ reconnectAttempts = 0
  /\ isIntentionallyDisconnected = FALSE
  /\ messageQueue = <<>>
  /\ connectCalls = 1
  /\ reconnectTimers = 0
  /\ sendCount = 0
  /\ sendsLeft = MaxSends
  /\ emitted = <<>>
  /\ scheduled = <<>>

\* The client a moment later: send was called k times before the storage
\* lookup of the constructor's connect() answered.
BufferInit ==
  \E k \in {0, MessageQueueLimit} :
    /\ socket = NoSocket
    /\ sockets = [s \in SocketIds |-> "none"]
    /\ reconnectAttempts = 0
    /\ isIntentionallyDisconnected = FALSE
    /\ messageQueue = [i \in 1..k |-> i]
    /\ connectCalls = 1
    /\ reconnectTimers = 0
      /\ sendCount = k
    /\ sendsLeft = MaxSends
    /\ emitted = <<>>
    /\ scheduled = <<>>
  
SocketIdle ==
  /\ socket = NoSocket
  /\ sockets = [s \in SocketIds |-> "none"]
  /\ reconnectAttempts = 0
  /\ isIntentionallyDisconnected = FALSE
  /\ messageQueue = <<>>
  /\ connectCalls = 0
  /\ reconnectTimers = 0
  /\ sendCount = 0
  /\ sendsLeft = 0
  /\ emitted = <<>>
  /\ scheduled = <<>>

notSocket == <<now, qvars, lvars, ovars, gvars, ivars, dvars, fvars, cvars, rvars, bvars>>

\* connect() up to its await: the two early returns, then the storage lookup
ConnectCall ==
  IF IsConnected \/ isIntentionallyDisconnected
  THEN connectCalls' = connectCalls
  ELSE connectCalls' = connectCalls + 1

ScheduleReconnectUnlimited ==
  IF isIntentionallyDisconnected
  THEN UNCHANGED <<reconnectAttempts, reconnectTimers, scheduled>>
  ELSE /\ reconnectAttempts' = reconnectAttempts + 1
       /\ reconnectTimers' = reconnectTimers + 1
       /\ scheduled' = Append(scheduled, [attempts |-> reconnectAttempts,
                                          delay |-> ReconnectDelayOf(reconnectAttempts)])

ScheduleReconnect ==
  IF isIntentionallyDisconnected \/ reconnectAttempts >= MaxReconnectAttempts
  THEN UNCHANGED <<reconnectAttempts, reconnectTimers, scheduled>>
  ELSE /\ reconnectAttempts' = reconnectAttempts + 1
       /\ reconnectTimers' = reconnectTimers + 1
       /\ scheduled' = Append(scheduled, [attempts |-> reconnectAttempts,
                                          delay |-> ReconnectDelayOf(reconnectAttempts)])

\* connect() after its await: io() and setupEventHandlers, or the catch block
ConnectResume(ok) ==
  /\ connectCalls > 0
  /\ connectCalls' = connectCalls - 1
  /\ IF ok
     THEN LET base == Forget(sockets, NoSocket)
              s == Min({t \in SocketIds : base[t] = "none"})
          IN /\ socket' = s
             /\ sockets' = [base EXCEPT ![s] = "connecting"]
             /\ UNCHANGED <<reconnectAttempts, reconnectTimers, scheduled>>
     ELSE /\ ScheduleReconnect
          /\ UNCHANGED <<socket, sockets>>
  /\ UNCHANGED <<isIntentionallyDisconnected, messageQueue, sendCount, sendsLeft,
                 emitted>>
  /\ UNCHANGED notSocket

EmitAll(sock, q) == [i \in 1..Len(q) |-> [socket |-> sock, msg |-> q[i]]]

\* the 'connect' handler of socket s, flushMessageQueue included
OnConnect(s) ==
  /\ sockets[s] = "connecting"
  /\ sockets' = [sockets EXCEPT ![s] = "connected"]
  /\ reconnectAttempts' = 0
  /\ scheduled' = <<>>
  /\ IF IsConnectedIn(socket, sockets')
     THEN /\ emitted' = emitted \o EmitAll(socket, messageQueue)
          /\ messageQueue' = <<>>
     ELSE UNCHANGED <<emitted, messageQueue>>
  /\ UNCHANGED <<socket, isIntentionallyDisconnected, connectCalls, reconnectTimers,
                 sendCount, sendsLeft>>
  /\ UNCHANGED notSocket

\* the 'connect_error' handler of socket s
OnConnectError(s) ==
  /\ sockets[s] = "connecting"
  /\ sockets' = Forget([sockets EXCEPT ![s] = "closed"], socket)
  /\ ScheduleReconnect
  /\ UNCHANGED <<socket, isIntentionallyDisconnected, messageQueue, connectCalls,
                 sendCount, sendsLeft, emitted>>
  /\ UNCHANGED notSocket

\* the 'disconnect' handler of socket s, the server or the transport having closed it
OnDisconnect(s) ==
  /\ sockets[s] = "connected"
  /\ sockets' = Forget([sockets EXCEPT ![s] = "closed"], socket)
  /\ ScheduleReconnect
  /\ UNCHANGED <<socket, isIntentionallyDisconnected, messageQueue, connectCalls,
                 sendCount, sendsLeft, emitted>>
  /\ UNCHANGED notSocket

\* the callback of the setTimeout of scheduleReconnect
ReconnectTimer ==
  /\ reconnectTimers > 0
  /\ reconnectTimers' = reconnectTimers - 1
  /\ ConnectCall
  /\ UNCHANGED <<socket, sockets, reconnectAttempts, isIntentionallyDisconnected, messageQueue,
                 sendCount, sendsLeft, emitted, scheduled>>
  /\ UNCHANGED notSocket

\* the heartbeat alarm of the service worker (startSession and resumeSession
\* call connect() under the same condition)
HeartbeatAlarm ==
  /\ ConnectActivities <= MaxConcurrentConnects
  /\ ~IsConnected
  /\ ConnectCall
  /\ UNCHANGED <<socket, sockets, reconnectAttempts, isIntentionallyDisconnected, messageQueue,
                 reconnectTimers, sendCount, sendsLeft, emitted, scheduled>>
  /\ UNCHANGED notSocket

SendUnlimited ==
  /\ sendsLeft > 0
  /\ sendsLeft' = sendsLeft - 1
  /\ sendCount' = sendCount + 1
  /\ IF IsConnected
     THEN /\ emitted' = Append(emitted, [socket |-> socket, msg |-> sendCount + 1])
          /\ UNCHANGED messageQueue
     ELSE /\ messageQueue' = Append(messageQueue, sendCount + 1)
          /\ UNCHANGED emitted
  /\ UNCHANGED <<socket, sockets, reconnectAttempts, isIntentionallyDisconnected, connectCalls,
                 reconnectTimers, scheduled>>
  /\ UNCHANGED notSocket

\* send(event, payload): the messages are numbered in the order of the calls
Send ==
  /\ sendsLeft > 0
  /\ sendsLeft' = sendsLeft - 1
  /\ sendCount' = sendCount + 1
  /\ IF IsConnected
     THEN /\ emitted' = Append(emitted, [socket |-> socket, msg |-> sendCount + 1])
          /\ UNCHANGED messageQueue
     ELSE /\ messageQueue' =
               LET pushed == Append(messageQueue, sendCount + 1)
               IN IF Len(pushed) > MessageQueueLimit THEN Tail(pushed) ELSE pushed
          /\ UNCHANGED emitted
  /\ UNCHANGED <<socket, sockets, reconnectAttempts, isIntentionallyDisconnected, connectCalls,
                 reconnectTimers, scheduled>>
  /\ UNCHANGED notSocket

\* disconnect(); socket.disconnect() closes the socket at once, and its
\* 'disconnect' event carries the reason 'io client disconnect'
Disconnect ==
  /\ isIntentionallyDisconnected' = TRUE
  /\ IF socket # NoSocket
     THEN /\ sockets' = Forget([sockets EXCEPT ![socket] = "closed"], NoSocket)
          /\ socket' = NoSocket
     ELSE UNCHANGED <<socket, sockets>>
  /\ UNCHANGED <<reconnectAttempts, messageQueue, connectCalls, reconnectTimers,
                 sendCount, sendsLeft, emitted, scheduled>>
  /\ UNCHANGED notSocket

SocketNext ==
  \/ \E ok \in BOOLEAN : ConnectResume(ok)
  \/ \E s \in SocketIds : OnConnect(s)
  \/ \E s \in SocketIds : OnConnectError(s)
  \/ \E s \in SocketIds : OnDisconnect(s)
  \/ ReconnectTimer
  \/ HeartbeatAlarm
  \/ Send
  \/ Disconnect

(***************************************************************************)
(* Extension: EventBatcher (extension/src/utils/eventBatcher.ts)           *)
(*                                                                         *)
(* The events are numbered in the order of the add calls.  A timer is the  *)
(* number of the add call that set it.                                     *)
(***************************************************************************)
NoTimer == 0
BatcherConfigs == [maxBatchSize : 1..MaxBatch, useAlarms : BOOLEAN]

BatcherInit ==
  /\ batcherConfig \in BatcherConfigs
  /\ batch = <<>>
  /\ flushTimer = NoTimer
  /\ timeouts = {}
  /\ alarmSet = FALSE
  /\ alarmGets = 0
  /\ flushed = <<>>
  /\ added = 0
  /\ discarded = {}

BatcherIdle ==
  /\ batcherConfig = [maxBatchSize |-> 1, useAlarms |-> FALSE]
  /\ batch = <<>>
  /\ flushTimer = NoTimer
  /\ timeouts = {}
  /\ alarmSet = FALSE
  /\ alarmGets = 0
  /\ flushed = <<>>
  /\ added = 0
  /\ discarded = {}

notBatcher == <<now, qvars, lvars, ovars, gvars, ivars, dvars, fvars, cvars, rvars, wvars>>

\* flush(), lines 72-93, when this.batch is b, the pending setTimeout
\* callbacks are pend and the alarm is set or not
FlushFrom(b, pend, alarmNow) ==
  IF Len(b) = 0
  THEN /\ batch' = b
       /\ timeouts' = pend
       /\ alarmSet' = alarmNow
       /\ UNCHANGED <<flushTimer, flushed>>
  ELSE /\ batch' = <<>>
       /\ timeouts' = pend \ {flushTimer}
       /\ flushTimer' = NoTimer
       /\ alarmSet' = IF batcherConfig.useAlarms THEN FALSE ELSE alarmNow
       /\ flushed' = Append(flushed, b)

AddWithoutSizeCheck ==
  /\ added < MaxAdds
  /\ added' = added + 1
  /\ LET pushed == Append(batch, added + 1)
     IN /\ batch' = pushed
        /\ IF flushTimer = NoTimer /\ ~batcherConfig.useAlarms
           THEN /\ flushTimer' = added + 1
                /\ timeouts' = timeouts \cup {added + 1}
                /\ UNCHANGED alarmGets
           ELSE /\ alarmGets' = IF batcherConfig.useAlarms THEN alarmGets + 1 ELSE alarmGets
                /\ UNCHANGED <<flushTimer, timeouts>>
        /\ UNCHANGED <<alarmSet, flushed>>
  /\ UNCHANGED <<batcherConfig, discarded>>
  /\ UNCHANGED notBatcher

\* add(event), lines 43-70
Add ==
  /\ added < MaxAdds
  /\ added' = added + 1
  /\ LET pushed == Append(batch, added + 1)
     IN IF Len(pushed) >= batcherConfig.maxBatchSize
        THEN /\ FlushFrom(pushed, timeouts, alarmSet)
             /\ UNCHANGED alarmGets
        ELSE /\ batch' = pushed
             /\ IF flushTimer = NoTimer /\ ~batcherConfig.useAlarms
                THEN /\ flushTimer' = added + 1
                     /\ timeouts' = timeouts \cup {added + 1}
                     /\ UNCHANGED alarmGets
                ELSE /\ alarmGets' = IF batcherConfig.useAlarms THEN alarmGets + 1 ELSE alarmGets
                     /\ UNCHANGED <<flushTimer, timeouts>>
             /\ UNCHANGED <<alarmSet, flushed>>
  /\ UNCHANGED <<batcherConfig, discarded>>
  /\ UNCHANGED notBatcher

\* the callback of chrome.alarms.get, lines 63-68
AlarmGetCallback ==
  /\ alarmGets > 0
  /\ alarmGets' = alarmGets - 1
  /\ alarmSet' = TRUE
  /\ UNCHANGED <<batcherConfig, batch, flushTimer, timeouts, flushed, added, discarded>>
  /\ UNCHANGED notBatcher

\* the callback of setTimeout, lines 58-60
TimeoutFires(t) ==
  /\ t \in timeouts
  /\ FlushFrom(batch, timeouts \ {t}, alarmSet)
  /\ UNCHANGED <<batcherConfig, alarmGets, added, discarded>>
  /\ UNCHANGED notBatcher

\* the alarm listener, lines 35-39; the alarm is gone once it has fired
AlarmFires ==
  /\ alarmSet
  /\ FlushFrom(batch, timeouts, FALSE)
  /\ UNCHANGED <<batcherConfig, alarmGets, added, discarded>>
  /\ UNCHANGED notBatcher

\* flush() called by the owner (handleEndSession)
Flush ==
  /\ FlushFrom(batch, timeouts, alarmSet)
  /\ UNCHANGED <<batcherConfig, alarmGets, added, discarded>>
  /\ UNCHANGED notBatcher

\* clear(), lines 95-104
Clear ==
  /\ batch' = <<>>
  /\ discarded' = discarded \cup Range(batch)
  /\ timeouts' = timeouts \ {flushTimer}
  /\ flushTimer' = NoTimer
  /\ alarmSet' = IF batcherConfig.useAlarms THEN FALSE ELSE alarmSet
  /\ UNCHANGED <<batcherConfig, alarmGets, flushed, added>>
  /\ UNCHANGED notBatcher

BatcherNext ==
  \/ Add
  \/ AlarmGetCallback
  \/ \E t \in 1..MaxAdds : TimeoutFires(t)
  \/ AlarmFires
  \/ Flush
  \/ Clear

(***************************************************************************)
(* Specifications                                                          *)
(***************************************************************************)
ExtraIdle == QueriesIdle /\ SocketIdle /\ BatcherIdle

Init == now = StartTime /\ ExtraIdle /\ QueueInit /\ LimiterInit /\ OrchIdle /\ GroqIdle /\ InsightsIdle /\ DetectIdle /\ FocusIdle /\ ScoreIdle

\* the request queue in front of a rate limiter that may grant or deny
Next == QueueNext
Spec == Init /\ [][Next]_vars

\* the request queue in front of a rate limiter that grants every acquire
SpecGranted == Init /\ [][QueueNextGranted]_vars

\* the rate limiter's admission control under a non-decreasing clock
SpecLimiter == Init /\ [][LimiterNext]_vars

\* the rate limiter's per-session intervention throttle
SpecThrottle == Init /\ [][ThrottleNext]_vars

\* activity events and the interventions they trigger, for sessions that
\* already have a history of activities
InitOrch == now = StartTime /\ ExtraIdle /\ QueueInit /\ LimiterInit /\ OrchInit /\ GroqIdle /\ InsightsIdle /\ DetectIdle /\ FocusIdle /\ ScoreIdle
SpecOrch == InitOrch /\ [][OrchNext]_vars

\* session ends and the per-session intervention throttle
SpecSessions == Init /\ [][SessionsNext]_vars

\* calls of the inference client, through its request queue
InitGroq == now = StartTime /\ ExtraIdle /\ QueueInit /\ LimiterInit /\ OrchIdle /\ GroqInit /\ InsightsIdle /\ DetectIdle /\ FocusIdle /\ ScoreIdle
SpecGroq == InitGroq /\ [][GroqNext]_vars

\* activity events, interventions and session insights, with and without a
\* configured AI service
InitInsights ==
  now = StartTime /\ ExtraIdle /\ QueueInit /\ LimiterInit /\ InsightsInit /\ GroqIdle /\ InsightsIdle /\ DetectIdle /\ FocusIdle /\ ScoreIdle
SpecInsights == InitInsights /\ [][InsightsNext]_vars

\* the pattern detector applied to given activities at a given time
InitDetect ==
  now = StartTime /\ ExtraIdle /\ QueueInit /\ LimiterInit /\ OrchIdle /\ GroqIdle /\ InsightsIdle
    /\ DetectInit /\ FocusIdle /\ ScoreIdle
SpecDetect == InitDetect /\ [][DetectNext]_vars

\* the focus score calculator applied to a session that gets more and more idle
InitFocus ==
  now = StartTime /\ ExtraIdle /\ QueueInit /\ LimiterInit /\ OrchIdle /\ GroqIdle /\ InsightsIdle
    /\ DetectIdle /\ FocusInit /\ ScoreIdle
SpecFocus == InitFocus /\ [][FocusNext]_vars

\* the calculators of the program called on given activities, between
\* changes of their configuration
InitScore ==
  now = StartTime /\ ExtraIdle /\ QueueInit /\ LimiterInit /\ OrchIdle /\ GroqIdle /\ InsightsIdle
    /\ DetectIdle /\ ScoreInit
SpecScore == InitScore /\ [][ScoreNext]_vars

\* calculateTrend applied to a score and a historical average
InitTrend ==
  now = StartTime /\ ExtraIdle /\ QueueInit /\ LimiterInit /\ OrchIdle /\ GroqIdle /\ InsightsIdle
    /\ DetectIdle /\ TrendInit
SpecTrend == InitTrend /\ [][TrendNext]_vars

\* the rate limiter's acquire between its queries, next to a twin limiter that
\* is given the acquire calls alone
InitQueries ==
  now = StartTime /\ SocketIdle /\ BatcherIdle /\ QueueInit /\ QueriesInit /\ OrchIdle /\ GroqIdle /\ InsightsIdle
    /\ DetectIdle /\ FocusIdle /\ ScoreIdle
SpecQueries == InitQueries /\ [][QueriesNext]_vars

\* two calculators of the program, one of which has its configuration changed
SpecConfig == InitScore /\ [][ConfigNext]_vars

\* the calculators and the detector given degenerate input
InitDegenerate ==
  now = StartTime /\ ExtraIdle /\ QueueInit /\ LimiterInit /\ OrchIdle /\ GroqIdle /\ InsightsIdle
    /\ DegenerateInit
SpecDegenerate == InitDegenerate /\ [][DegenerateNext]_vars

\* the WebSocketClient of the extension
InitSocket ==
  now = StartTime /\ QueriesIdle /\ SocketInit /\ BatcherIdle /\ QueueInit /\ LimiterInit /\ OrchIdle
  /\ GroqIdle /\ InsightsIdle /\ DetectIdle /\ FocusIdle /\ ScoreIdle
SpecSocket == InitSocket /\ [][SocketNext]_vars

\* the WebSocketClient, send calls having been made before the first socket exists
InitBuffer ==
  now = StartTime /\ QueriesIdle /\ BufferInit /\ BatcherIdle /\ QueueInit /\ LimiterInit /\ OrchIdle
  /\ GroqIdle /\ InsightsIdle /\ DetectIdle /\ FocusIdle /\ ScoreIdle
SpecBuffer == InitBuffer /\ [][SocketNext]_vars

\* the EventBatcher of the extension
InitBatcher ==
  now = StartTime /\ QueriesIdle /\ SocketIdle /\ BatcherInit /\ QueueInit /\ LimiterInit /\ OrchIdle
  /\ GroqIdle /\ InsightsIdle /\ DetectIdle /\ FocusIdle /\ ScoreIdle
SpecBatcher == InitBatcher /\ [][BatcherNext]_vars

(***************************************************************************)
(* Properties of the RequestQueue                                          *)
(***************************************************************************)
Accepted == {r \in ReqIds : promise[r] \notin {"none", "rejectedFull"}}
ActiveLoops == {l \in LoopIds : loopPc[l] # "none"}
PendingTimers == {r \in ReqIds : timers[r] > 0}

\* nothing is queued, running or scheduled: without a further enqueue the queue
\* takes no more steps
Quiescent == queue = <<>> /\ ActiveLoops = {} /\ PendingTimers = {}

\* the terminal state the promise of request r must reach, from what its closure does
ExpectedSettlement(r) ==
  CASE reqs[r].kind = "ok" -> "resolved"
    [] reqs[r].kind = "throttle" -> "rejectedRateLimit"
    [] OTHER -> "rejectedError"

\* C1: every request enqueue accepted is settled with the outcome of its own
\* closure; no accepted request stays pending forever.  Stated at quiescence:
\* once the queue has nothing left to do, no accepted request is still pending,
\* and each holds the result of its own closure.
C1_AcceptedSettled ==
  Quiescent =>
    \A r \in Accepted :
      /\ promise[r] = ExpectedSettlement(r)
      /\ promise[r] = "resolved" => promiseVal[r] = r

\* r1 is served before r2: higher priority first, enqueue order among equals
ServedBefore(r1, r2) ==
  \/ reqs[r1].priority > reqs[r2].priority
  \/ reqs[r1].priority = reqs[r2].priority /\ r1 < r2

\* C2: with a rate limiter that always grants and all enqueue calls made before
\* any closure was invoked, closures are first invoked in descending priority
\* order, FIFO among equal priorities (priorities [1, 3, 2] run as [3, 2, 1]),
\* and a closure that does not fail with a throttling error runs exactly once.
C2_PriorityOrder ==
  /\ [][\A r \in ReqIds :
          (~enqAfterStart' /\ execCount[r] = 0 /\ execCount'[r] = 1) =>
            \A r2 \in Accepted \ {r} : execCount[r2] = 0 => ServedBefore(r, r2)]_vars
  /\ [](~enqAfterStart =>
          \A r \in Accepted : reqs[r].kind # "throttle" => execCount[r] <= 1)

\* the backoff delays of the first n retries: retryDelay * 2^(i-1)
BackoffDelays(n) == [i \in 1..n |-> RetryDelay * Pow2(i - 1)]

\* C3: a request whose closure always fails with a throttling error is invoked
\* maxRetries+1 times in total, the i-th retry is scheduled after
\* retryDelay * 2^(i-1), and after the last attempt its promise is rejected with
\* the rate-limit error.
C3_RetryBackoff ==
  \A r \in Accepted :
    reqs[r].kind = "throttle" =>
      /\ execCount[r] <= reqs[r].maxRetries + 1
      /\ delays[r] = BackoffDelays(reqs[r].retries)
      /\ reqs[r].retries <= reqs[r].maxRetries
      /\ promise[r] # "pending" =>
           /\ promise[r] = "rejectedRateLimit"
           /\ execCount[r] >= reqs[r].maxRetries + 1
      /\ (Quiescent => promise[r] = "rejectedRateLimit")

C5_SingleDrain ==
  /\ Cardinality(ActiveLoops) <= 1
  /\ Cardinality({l \in LoopIds : loopPc[l] = "exec"}) <= 1
  /\ processing <=> ActiveLoops # {}

\* a closure is in flight while a re-inserted retry and a later enqueue wait in
\* the queue: both re-entered processQueue while the loop was running
C5_Witness ==
  /\ \E l \in LoopIds : loopPc[l] = "exec"
  /\ \E i \in 1..Len(queue) : reqs[queue[i]].retries > 0
  /\ \E i \in 1..Len(queue) : reqs[queue[i]].retries = 0 /\ execCount[queue[i]] = 0
  /\ enqAfterStart

(***************************************************************************)
(* Properties of the GroqRateLimiter                                       *)
(***************************************************************************)
\* C6: token conservation.  While no time passes, the tokens left are the tokens
\* available when the calls began minus the estimates granted since, and never
\* negative; a further acquire(k) at the same instant that finds tokens < k
\* answers false and leaves the token count and the request window as they were.
C6_TokenConservation ==
  /\ tokens >= 0
  /\ lastAcquire.at = now => tokens = runBase - runSum
  /\ (lastAcquire.repeat /\ lastAcquire.tokBefore < lastAcquire.k) =>
       /\ ~lastAcquire.granted
       /\ lastAcquire.tokAfter = lastAcquire.tokBefore
       /\ lastAcquire.reqAfter = lastAcquire.reqBefore

\* tokens ran out at one instant: two grants and then a denial for lack of tokens
C6_Witness ==
  /\ lastAcquire.repeat
  /\ ~lastAcquire.granted
  /\ lastAcquire.tokBefore < lastAcquire.k
  /\ runSum >= 2 * DefaultEstimate
  /\ Len(requests) < RequestsPerMinute

\* C7: sliding window.  With enough tokens, acquire denies exactly when
\* requestsPerMinute acquires were granted in the trailing 60 s (a grant that is
\* 60 s old or older no longer counts), so no 60 s window holds more than
\* requestsPerMinute grants.
C7_SlidingWindow ==
  /\ (lastAcquire.at # Absent /\ lastAcquire.avail >= lastAcquire.k) =>
       (lastAcquire.granted <=> lastAcquire.recent < RequestsPerMinute)
  /\ \A i \in 1..Len(grantLog) :
       Cardinality({j \in 1..Len(grantLog) :
                      grantLog[j] <= grantLog[i] /\ grantLog[i] - grantLog[j] < WindowMs})
         <= RequestsPerMinute

\* a grant given exactly when the oldest of requestsPerMinute grants turned 60 s
\* old, after a full window had been denied
C7_Witness ==
  /\ lastAcquire.granted
  /\ Len(grantLog) > RequestsPerMinute
  /\ lastAcquire.at - grantLog[1] = WindowMs
  /\ lastAcquire.recent = RequestsPerMinute - 1

\* C8: per-session throttle.  canSendIntervention(sid, m) is true while no
\* recordIntervention(sid) is on record, false from the record until m ms have
\* passed since it, and true from then on.
C8_SessionThrottle ==
  /\ \A sid \in Sessions, m \in MinIntervals :
       CanSendIntervention(sid, m) <=>
         (lastRecord[sid] = Absent \/ now - lastRecord[sid] >= m)
  /\ lastAnswer.at # Absent =>
       (lastAnswer.answer <=>
          (lastAnswer.since = Absent \/ lastAnswer.at - lastAnswer.since >= lastAnswer.min))

\* a session was answered true exactly minIntervalMs after its record, while the
\* other session, recorded later, is still throttled
C8_Witness ==
  /\ lastAnswer.sid = "s1"
  /\ lastAnswer.answer
  /\ lastAnswer.min = MinIntervalMs
  /\ lastAnswer.since # Absent
  /\ lastAnswer.at - lastAnswer.since = MinIntervalMs
  /\ lastAnswer.at = now
  /\ ~CanSendIntervention("s2", MinIntervalMs)

(***************************************************************************)
(* Properties of the intervention orchestration                            *)
(***************************************************************************)
\* C9: two intervention messages delivered to the same listener of the same
\* session are at least the minimum intervention interval (10 minutes) apart.
C9_MinInterval ==
  \A i, j \in 1..Len(delivered) :
    (i < j /\ delivered[i].sid = delivered[j].sid /\ delivered[i].to = delivered[j].to)
      => delivered[j].at - delivered[i].at >= MinIntervalMs

\* the detectors in their order of evaluation
DetectorOrder ==
  <<"context_switching", "social_media_spiral", "extended_idle", "fragmented_focus">>
FirstFired(fired) == DetectorOrder[Min({i \in 1..4 : DetectorOrder[i] \in fired})]

\* C10: one activity event produces at most one inference request and at most
\* one intervention message per listener, for the first pattern in detector
\* order among those its window triggers.
C10_SingleFire ==
  \A e \in EventIds :
    /\ Len(events[e].requests) <= 1
    /\ \A to \in {"extension", "frontend"} :
         Cardinality({i \in 1..Len(delivered) :
                        delivered[i].event = e /\ delivered[i].to = to}) <= 1
    /\ Len(events[e].requests) = 1 =>
         /\ events[e].fired # {}
         /\ events[e].requests[1] = FirstFired(events[e].fired)
    /\ \A i \in 1..Len(delivered) :
         delivered[i].event = e => delivered[i].type = events[e].requests[1]

\* an event whose window triggered context switching and extended idle at once
\* was answered with one context-switching message
C10_Witness ==
  \E e \in EventIds :
    /\ events[e].pc = "done"
    /\ {"context_switching", "extended_idle"} \subseteq events[e].fired
    /\ events[e].requests = <<"context_switching">>
    /\ Cardinality({i \in 1..Len(delivered) : delivered[i].event = e}) = 2
    /\ \E i \in 1..Len(delivered) :
         delivered[i].event = e /\ delivered[i].to = "extension"
           /\ delivered[i].type = "context_switching"

\* C11: an event whose inference request failed, in whatever way, has its
\* activity in the store and was not answered with an error event, and the
\* handler still accepts the next activity event.
C11_FailureContained ==
  \A e \in EventIds :
    events[e].failure # "none" =>
      /\ events[e].index \in 1..Len(activities[events[e].sid])
      /\ e \notin errorEvents
      /\ events[e].pc = "done"
      /\ nextEvent < MaxEvents =>
            ENABLED (\E sid \in Sessions, type \in EventTypes : ActivityLog(sid, type))

\* the inference request of the first event was rejected for a full queue and
\* the event after it was answered with an intervention
C11_Witness ==
  /\ events[1].failure = "queue_full"
  /\ 1 \notin errorEvents
  /\ \E i \in 1..Len(delivered) : delivered[i].event = 2

(***************************************************************************)
(* Properties of the inference client                                      *)
(***************************************************************************)
\* the invocations of the closure of r that have returned or thrown
Completed(r) ==
  execCount[r] - (IF \E l \in LoopIds : loopPc[l] = "exec" /\ loopReq[l] = r THEN 1 ELSE 0)

\* the API calls made so far for request r: the first call of every invocation
\* and the later calls of the invocations that are over
ApiCallsMade(r) ==
  LET calls == Closure(closures[r]).calls
  IN [i \in 1..Len(calls) |-> IF i = 1 THEN execCount[r] ELSE Completed(r)]
FastCallsMade(r) ==
  LET calls == Closure(closures[r]).calls
      made == ApiCallsMade(r)
      idx == {i \in 1..Len(calls) : calls[i].model = "8B"}
  IN IF idx = {} THEN 0 ELSE made[Max(idx)] + (IF Cardinality(idx) > 1 THEN made[1] ELSE 0)

GroqCalls == {r \in Accepted : closures[r].method # "none"}

\* the deep call of r fails as model-unavailable
DeepUnavailable(r) ==
  /\ closures[r].method = "deep"
  /\ ~closures[r].first.ok
  /\ \/ Includes(closures[r].first.message, StrDecommissioned)
     \/ (closures[r].first.responseStatus = 400 /\ Includes(closures[r].first.message, StrModel))

\* C12: a generateDeep whose deep call fails as model-unavailable and whose fast
\* call succeeds is never rejected, and once resolved it holds the fast model's
\* output and has called the fast model exactly once, with
\* min(2 * requested tokens, 4096) tokens.
C12_DeepFallback ==
  \A r \in GroqCalls :
    (DeepUnavailable(r) /\ closures[r].fallback.ok) =>
      /\ promise[r] \in {"pending", "resolved"}
      /\ promise[r] = "resolved" =>
           /\ Closure(closures[r]).output = "8B"
           /\ FastCallsMade(r) = 1
           /\ \A i \in 1..Len(Closure(closures[r]).calls) :
                Closure(closures[r]).calls[i].model = "8B" =>
                  Closure(closures[r]).calls[i].maxTokens =
                    (LET req == EstimatedTokens(closures[r].maxTokens)
                     IN IF 2 * req <= 4096 THEN 2 * req ELSE 4096)

\* C13: every API call made for a request has its own granted acquire: the
\* calls made for a request are never more than the acquires granted for it.
C13_OwnAcquire ==
  \A r \in GroqCalls :
    LET made == ApiCallsMade(r)
    IN (IF Len(made) = 0 THEN 0 ELSE made[1] + (IF Len(made) > 1 THEN made[2] ELSE 0))
         <= execCount[r]

Rejected(r) == promise[r] \in {"rejectedRateLimit", "rejectedError"}

\* C14: a request whose API error the client classifies as throttling is
\* rejected only when its retries are used up.
C14_ThrottleRetried ==
  \A r \in GroqCalls :
    (~closures[r].first.ok /\ ClientSeesRateLimit(closures[r].first) /\ Rejected(r))
      => reqs[r].retries >= reqs[r].maxRetries

\* C15: when the deep call fails as model-unavailable and the fast call fails
\* too, the fast model is called once, the request is not retried, and the
\* promise is rejected with an error that holds both messages.
C15_BothFailed ==
  \A r \in GroqCalls :
    (DeepUnavailable(r) /\ ~ClientSeesRateLimit(closures[r].first)
       /\ ~closures[r].fallback.ok) =>
      /\ FastCallsMade(r) <= 1
      /\ reqs[r].retries = 0 /\ timers[r] = 0
      /\ promise[r] # "resolved"
      /\ Rejected(r) =>
           /\ Includes(Closure(closures[r]).message, closures[r].first.message)
           /\ Includes(Closure(closures[r]).message, closures[r].fallback.message)

(***************************************************************************)
(* Properties of the degraded mode                                         *)
(***************************************************************************)
\* C16: without an AI service no event makes an inference request or gets an
\* intervention or an error for it, and generateSessionInsights asks for no
\* inference and returns the pattern-based recommendations and the fallback
\* insights; it returns the same when the AI call was made and failed.
C16_DegradedMode ==
  /\ ~aiConfigured =>
       /\ delivered = <<>>
       /\ \A e \in EventIds :
            events[e].requests = <<>> /\ events[e].failure = "none"
              /\ (events[e].index > 0 => e \notin errorEvents)
       /\ ~lastInsights.attempted
       /\ lastInsights.activityCount > 0 =>
            /\ lastInsights.result = "returned"
            /\ lastInsights.insights = "fallback"
            /\ lastInsights.recommendations = "pattern"
  /\ (lastInsights.attempted /\ lastInsights.ai # "ok") =>
       /\ lastInsights.result = "returned"
       /\ lastInsights.insights = "fallback"
       /\ lastInsights.recommendations = "pattern"
  /\ lastInsights.result = "error" => lastInsights.activityCount = 0

\* without an AI service an activity was stored for a session whose window
\* triggers a pattern, and the session's insights were returned
C16_Witness ==
  /\ ~aiConfigured
  /\ \E e \in EventIds :
       /\ events[e].pc = "done" /\ events[e].index > 0
       /\ DetectPatterns(activities[events[e].sid], now) # <<>>
       /\ lastInsights.sid = events[e].sid
  /\ lastInsights.result = "returned"
  /\ lastInsights.insights = "fallback"

Detected(type) == SelectSeq(detectOutput.patterns, LAMBDA p : p.type = type)
InTrailingWindow(a) == detectOutput.at - a.timestamp < ContextSwitchWindow

\* the tab and app switches of the input inside the trailing window
SwitchCount ==
  Cardinality({i \in 1..Len(detectInput.acts) :
                 /\ detectInput.acts[i].eventType \in {"tab_switch", "app_switch"}
                 /\ InTrailingWindow(detectInput.acts[i])})

SocialVisits ==
  {i \in 1..Len(detectInput.acts) :
     /\ detectInput.acts[i].url # NoUrl
     /\ InTrailingWindow(detectInput.acts[i])
     /\ \E k \in 1..Len(SocialMediaDomains) :
          Includes(UrlText(detectInput.acts[i].url), SocialMediaDomains[k])}
VisitsOf(domain) ==
  Cardinality({i \in SocialVisits : MatchingDomain(detectInput.acts[i].url) = domain})

IdleSecondsOf(call) ==
  LET idle == {i \in 1..Len(call.acts) : call.acts[i].eventType = "idle_end"}
      RECURSIVE Sum(_)
      Sum(S) == IF S = {} THEN 0
                ELSE LET i == CHOOSE x \in S : TRUE
                     IN  call.acts[i].idleDuration + Sum(S \ {i})
  IN  Sum(idle)

\* the idle percentage of a call is exactly pct
IdlePercentIs(call, pct) ==
  /\ focusInput.sessionDurationMs > 0
  /\ IdleSecondsOf(call) * 1000 * 100 = pct * focusInput.sessionDurationMs

\* C20: for one session duration and otherwise the same activities, a call
\* of calculate with more idle time never gives a higher minimalIdle than a
\* call with less, whatever segments the two idle percentages fall in
C20_MinimalIdleMonotone ==
  \A i, j \in 1..Len(focusOutput) :
    IdleSecondsOf(focusOutput[i]) <= IdleSecondsOf(focusOutput[j])
      => focusOutput[j].minimalIdle <= focusOutput[i].minimalIdle

\* calculate ran at 5% idle and gave 100, and again at 60% idle and gave 25
C20_Witness ==
  /\ Len(focusOutput) = 2
  /\ IdlePercentIs(focusOutput[1], 5) /\ focusOutput[1].minimalIdle = 100
  /\ IdlePercentIs(focusOutput[2], 60) /\ focusOutput[2].minimalIdle = 25

TrendOf(currentScore, historicalAverage) ==
  IF trendCall.currentScore = currentScore
       /\ trendCall.historicalAverage = historicalAverage
    THEN trendCall.trend ELSE "other"

C23_RemovedIsExecuted ==
  [][\A l \in LoopIds :
       (loopPc[l] = "acquire" /\ loopPc'[l] = "exec") =>
         /\ queue # <<>>
         /\ Head(queue) = loopReq'[l]
         /\ queue' = Tail(queue)]_vars

\* C24: a closure is invoked only while its request's promise is pending,
\* every earlier invocation of it has failed with a throttling error that was
\* counted as a retry, and no closure is invoked more than maxRetries + 1 times
C24_NoReinvocation ==
  [][\A r \in ReqIds :
       execCount'[r] # execCount[r] =>
         /\ promise[r] = "pending"
         /\ execCount[r] = reqs[r].retries
         /\ execCount'[r] <= reqs[r].maxRetries + 1]_vars

\* C25: the queue never holds more than maxQueueSize requests
C25_QueueBounded == Len(queue) <= MaxQueueSize

\* C26: the drain loop is never held up by a request's retry-after delay
\* while other requests are waiting in the queue
C26_LoopStaysLive ==
  \A l \in LoopIds : loopPc[l] = "retryAfter" => queue = <<>>

\* C27: a request whose closure fails with an error that is not a
\* throttling error is executed once, is never counted as retried, gets no
\* retry timer, and once rejected is not in the queue
C27_NoRetryOfErrors ==
  \A r \in ReqIds :
    reqs[r].kind = "error" =>
      /\ execCount[r] <= 1
      /\ reqs[r].retries = 0
      /\ timers[r] = 0
      /\ promise[r] = "rejectedError" => (execCount[r] = 1 /\ r \notin Range(queue))

C29_SortedFifo ==
  (\A r \in ReqIds : reqs[r].retries = 0) =>
    \A i, j \in 1..Len(queue) :
      i < j => \/ reqs[queue[i]].priority > reqs[queue[j]].priority
               \/ (reqs[queue[i]].priority = reqs[queue[j]].priority /\ queue[i] < queue[j])

\* three requests are queued, two of one priority and a later one of a
\* higher priority in front of them
C29_Witness ==
  /\ \A r \in ReqIds : reqs[r].retries = 0
  /\ Len(queue) = 3
  /\ reqs[queue[1]].priority > reqs[queue[2]].priority
  /\ reqs[queue[2]].priority = reqs[queue[3]].priority
  /\ queue[1] > queue[3]

\* C30: bounds of the rate limiter.  With a clock that never goes back and
\* estimates that are not negative, the token count stays between 0 and
\* tokensPerMinute in every state, and the request window an acquire leaves
\* behind holds at most requestsPerMinute timestamps, each of them less than
\* 60 s older than the time of that acquire.
C30_LimiterBounds ==
  /\ 0 <= tokens
  /\ tokens <= TokensPerMinute
  /\ lastAcquire.at # Absent =>
       /\ requests = lastAcquire.reqAfter
       /\ Len(requests) <= RequestsPerMinute
       /\ \A i \in 1..Len(requests) :
            /\ requests[i] <= lastAcquire.at
            /\ lastAcquire.at - requests[i] < WindowMs

\* an acquire that found a full window whose oldest timestamp had turned 60 s
\* old, dropped it, refilled the tokens up to the cap and was granted
C30_Witness ==
  /\ lastAcquire.granted
  /\ Len(lastAcquire.reqBefore) = RequestsPerMinute
  /\ lastAcquire.at - lastAcquire.reqBefore[1] >= WindowMs
  /\ Len(requests) <= RequestsPerMinute
  /\ lastAcquire.avail = TokensPerMinute
  /\ tokens = TokensPerMinute - lastAcquire.k

(***************************************************************************)
(* Properties of the GroqRateLimiter's queries                             *)
(***************************************************************************)
\* C31: the queries are read-only.  Whatever queries were called in between,
\* every acquire gives the answer, and leaves the token count, that it gives
\* on a limiter that was given the same acquire calls and no queries.
C31_QueriesReadOnly ==
  lastBoth.at # Absent =>
    /\ lastBoth.granted = lastBoth.refGranted
    /\ lastBoth.tokens = lastBoth.refTokens

\* C31, the part about the window and the session map: a query changes neither
C31_QueriesKeepWindow ==
  [][lastQuery' # lastQuery =>
       /\ requests' = requests
       /\ sessionInterventions' = sessionInterventions]_vars

\* an acquire is granted on the twin and denied on the limiter that was queried
C31_OutcomeChanged == lastBoth.refGranted /\ ~lastBoth.granted

\* the idle_end events of a list, and the duration of the one stamped last
IdleEnds(acts) == SelectSeq(acts, LAMBDA a : a.eventType = "idle_end")
LatestIdleDuration(acts) ==
  LET ends == IdleEnds(acts)
      last == CHOOSE i \in 1..Len(ends) : \A j \in 1..Len(ends) : ends[j].timestamp <= ends[i].timestamp
  IN ends[last].idleDuration
ExpectedIdleSeverity(d) ==
  IF d >= IdleThresholdExtended THEN "high" ELSE IF d >= 120 THEN "medium" ELSE "low"

\* C32: extended idle looks at the idle_end event stamped last alone.  If its
\* duration is below idleThresholdShort, 0 included, no extended_idle pattern
\* is returned however long an earlier idle period was; otherwise one pattern
\* is returned, high from idleThresholdExtended, medium from 120 s, else low.
C32_LatestIdleOnly ==
  (detectOutput # NoOutput /\ IdleEnds(detectInput.acts) # <<>>) =>
    LET d == LatestIdleDuration(detectInput.acts)
    IN IF d < IdleThresholdShort
         THEN Detected("extended_idle") = <<>>
         ELSE /\ Len(Detected("extended_idle")) = 1
              /\ Detected("extended_idle")[1].severity = ExpectedIdleSeverity(d)
              /\ Detected("extended_idle")[1].count = d

\* the same for lists whose last idle_end event has a duration other than 0
C32_LatestIdleNonZero ==
  \/ (IdleEnds(detectInput.acts) # <<>> /\ LatestIdleDuration(detectInput.acts) = 0)
  \/ C32_LatestIdleOnly

\* the last idle period lasted 0 s and a pattern is returned for the one before
C32_EarlierIdleReported ==
  /\ detectOutput # NoOutput
  /\ IdleEnds(detectInput.acts) # <<>>
  /\ LatestIdleDuration(detectInput.acts) = 0
  /\ Detected("extended_idle") # <<>>

(***************************************************************************)
(* Properties of the calculator and the detector on degenerate input       *)
(***************************************************************************)
IsScore(v) == v \in 0..100
WeightsSumToOne(config) ==
  config.weights.typingConsistency + config.weights.lowContextSwitching
    + config.weights.minimalIdle + config.weights.siteFocus = 10
WeightedSum(score, config) ==
  score.typingConsistency * config.weights.typingConsistency
    + score.lowContextSwitching * config.weights.lowContextSwitching
    + score.minimalIdle * config.weights.minimalIdle
    + score.siteFocus * config.weights.siteFocus
ScoreInRange(call) ==
  /\ IsScore(call.score.typingConsistency)
  /\ IsScore(call.score.lowContextSwitching)
  /\ IsScore(call.score.minimalIdle)
  /\ IsScore(call.score.siteFocus)
  /\ WeightsSumToOne(call.config) =>
       /\ call.score.overall \in 0..1000
       /\ call.score.overall = WeightedSum(call.score, call.config)
HugeVelocities(acts) ==
  Cardinality({i \in 1..Len(acts) : TypingVelocity(acts[i]) = Huge})

\* C33: whatever the activities and the session duration are, every component
\* calculate returns is a whole number from 0 to 100, and with weights that
\* sum to 1 the overall score is the weighted sum of the components, from 0 to
\* 100 (in tenths: from 0 to 1000).
C33_ScoresInRange ==
  \A i \in 1..Len(calculateCalls) : ScoreInRange(calculateCalls[i])

\* the same for activity lists in which at most one typing velocity is huge
C33_ScoresInRangeNoOverflow ==
  \A i \in 1..Len(calculateCalls) :
    HugeVelocities(calculateCalls[i].acts) < 2 => ScoreInRange(calculateCalls[i])

\* C34: degenerate input.  For a session of duration 0 lowContextSwitching and
\* minimalIdle are 50 whatever the activities are; for an empty activity list
\* typingConsistency and siteFocus are 50 and the detector returns no pattern.
C34_Degenerate ==
  /\ \A i \in 1..Len(calculateCalls) :
       /\ calculateCalls[i].sessionDurationMs = 0 =>
            /\ calculateCalls[i].score.lowContextSwitching = 50
            /\ calculateCalls[i].score.minimalIdle = 50
       /\ calculateCalls[i].acts = <<>> =>
            /\ calculateCalls[i].score.typingConsistency = 50
            /\ calculateCalls[i].score.siteFocus = 50
  /\ (detectOutput # NoOutput /\ detectInput.acts = <<>>) => detectOutput.patterns = <<>>

\* calculate was called for a session of no duration that has switches and an
\* idle period, and the detector was called on an empty list
C34_Witness ==
  /\ detectOutput # NoOutput
  /\ detectInput.acts = <<>>
  /\ \E i \in 1..Len(calculateCalls) :
       /\ calculateCalls[i].sessionDurationMs = 0
       /\ \E j \in 1..Len(calculateCalls[i].acts) :
            calculateCalls[i].acts[j].eventType = "tab_switch"
       /\ IdleEvents(calculateCalls[i].acts) # <<>>

\* C35: updateConfig on one calculator changes that calculator alone.  The
\* exported default configuration keeps its weights and domain lists, and a
\* calculator on which updateConfig was never called scores every input as
\* the default configuration does.
C35_UpdateIsLocal ==
  /\ defaultConfig = DefaultFocusScoreConfig
  /\ \A i \in 1..Len(calculateCalls) :
       calculateCalls[i].calculator = "sessionService" =>
         calculateCalls[i].score =
           CalculateScore(calculateCalls[i].acts, calculateCalls[i].sessionDurationMs,
                          DefaultFocusScoreConfig)

\* the calculator of SessionService gave two scores for one input, before and
\* after updateConfig was called on the server's calculator
C35_ScoreChanged ==
  \E i, j \in 1..Len(calculateCalls) :
    /\ i < j
    /\ calculateCalls[i].calculator = "sessionService"
    /\ calculateCalls[j].calculator = "sessionService"
    /\ calculateCalls[i].acts = calculateCalls[j].acts
    /\ calculateCalls[i].sessionDurationMs = calculateCalls[j].sessionDurationMs
    /\ calculateCalls[i].score # calculateCalls[j].score

(***************************************************************************)
(* Properties of the extension's WebSocketClient                           *)
(***************************************************************************)
EmittedMessages == [i \in 1..Len(emitted) |-> emitted[i].msg]
Increasing(q) == \A i \in 1..(Len(q) - 1) : q[i] < q[i + 1]
\* the messages sent so far that were neither emitted nor are waiting
MissingMessages == (1..sendCount) \ (Range(EmittedMessages) \cup Range(messageQueue))

\* C36: a message sent while this.socket is not connected waits in
\* messageQueue; the queue holds at most 100 messages, and what it loses are
\* the oldest messages, each with 100 younger ones sent after it; the
\* messages are emitted once each and in the order of the send calls, those
\* that waited before any sent later, and none waits while the socket is
\* connected.
C36_OutboundBuffer ==
  /\ Len(messageQueue) <= MessageQueueLimit
  /\ Increasing(EmittedMessages \o messageQueue)
  /\ IsConnected => messageQueue = <<>>
  /\ messageQueue # <<>> => messageQueue[Len(messageQueue)] = sendCount
  /\ \A i \in 1..(Len(messageQueue) - 1) : messageQueue[i + 1] = messageQueue[i] + 1
  /\ \A m \in MissingMessages :
       m + MessageQueueLimit <= sendCount

\* C36, reached: a send made the full queue drop its oldest message, and the
\* connect of this.socket emitted the 100 messages kept, in their order
C36_Witness ==
  /\ IsConnected
  /\ Len(emitted) = MessageQueueLimit
  /\ emitted[1].msg = 2
  /\ emitted[Len(emitted)].msg = MessageQueueLimit + 1
  /\ messageQueue = <<>>

\* C37, first part: at most one socket is connecting or connected
C37_OneLiveSocket == Cardinality(LiveSockets) <= 1

\* C37, the rest: the i-th reconnect scheduled since the last 'connect' event
\* has the delay min(1000 * 2^(i-1), 30000), there are at most 10 of them, and
\* the counter is their number, so 0 after a connect
C37_Backoff ==
  /\ Len(scheduled) <= MaxReconnectAttempts
  /\ reconnectAttempts = Len(scheduled)
  /\ \A i \in 1..Len(scheduled) :
       scheduled[i] = [attempts |-> i - 1,
                       delay |-> IF ReconnectDelay * Pow2(i - 1) < MaxReconnectDelay
                                 THEN ReconnectDelay * Pow2(i - 1) ELSE MaxReconnectDelay]

\* C37: at most one socket or connection attempt is live at any time, and the
\* reconnects are delayed, limited and counted as said, whatever the order of
\* connect_error, disconnect and the connect calls of the service worker.
C37_Reconnection == C37_OneLiveSocket /\ C37_Backoff

\* C37, reached: two sockets connected at once, ten reconnects scheduled in a row
C37_TwoConnected == Cardinality({s \in SocketIds : sockets[s] = "connected"}) < 2
C37_TenScheduled == Len(scheduled) < MaxReconnectAttempts

\* C38: once disconnect() was called no socket is created, none becomes
\* connected and no reconnect is scheduled, whatever was in progress then.
C38_NothingAfterDisconnect ==
  [][isIntentionallyDisconnected =>
       /\ \A s \in SocketIds :
            sockets'[s] \in {"connecting", "connected"} => sockets'[s] = sockets[s]
       /\ reconnectTimers' <= reconnectTimers]_vars

\* C38, the part that holds: no reconnect is scheduled after disconnect()
C38_NoReconnectScheduled ==
  [][isIntentionallyDisconnected =>
       reconnectTimers' <= reconnectTimers /\ scheduled' \in {scheduled, <<>>}]_vars

\* C38, reached: this.socket is connected though disconnect() was called
C38_ConnectedAfterDisconnect ==
  ~(/\ isIntentionallyDisconnected
    /\ IsConnected)

(***************************************************************************)
(* Properties of the extension's EventBatcher                              *)
(***************************************************************************)
RECURSIVE Flatten(_)
Flatten(ss) == IF ss = <<>> THEN <<>> ELSE Head(ss) \o Flatten(Tail(ss))

\* C39: the events given to the flushCallback, then those of the batch, are
\* the added events that clear() did not remove, once each and in the order
\* of the add calls; the batch holds fewer than maxBatchSize events; the
\* flushCallback is never given an empty list; and with setTimeout in use a
\* batch that is not empty has one pending timer, the one flushTimer names.
C39_Batcher ==
  /\ Increasing(Flatten(flushed) \o batch)
  /\ Range(Flatten(flushed) \o batch) = (1..added) \ discarded
  /\ Len(batch) < batcherConfig.maxBatchSize
  /\ \A i \in 1..Len(flushed) : flushed[i] # <<>>
  /\ (~batcherConfig.useAlarms /\ batch # <<>>) =>
       flushTimer # NoTimer /\ timeouts = {flushTimer}

\* C39, reached: with setTimeout in use, two batches were flushed, nothing
\* was cleared, and events wait in the batch
C39_Witness ==
  /\ ~batcherConfig.useAlarms
  /\ Len(flushed) >= 2
  /\ discarded = {}
  /\ batch # <<>>
  /\ flushTimer # NoTimer

====
